---------------------------- MODULE Spec2Model ----------------------------
(***************************************************************************)
(* A model of filefinder: templates ("patterns") with {name} placeholders, *)
(* the construction of names and search patterns from them, the parsing of *)
(* found paths back into field values (_filefinder.py), and the priority   *)
(* filter on the resulting table (filters.py).                             *)
(*                                                                         *)
(* A string is a sequence of one-character strings.  A DataFrame is a      *)
(* sequence of rows [path |-> index label, named |-> column -> value].     *)
(***************************************************************************)
EXTENDS Integers, Sequences, FiniteSets, TLC

VARIABLES
    path_pattern,   \* FileFinder.path.pattern  (a string)
    file_pattern,   \* FileFinder.file.pattern  (a string)
    test_paths,     \* FileFinder._test_paths: what the path provider holds
    call,           \* the arguments of the last call on the finder
    ret,            \* what that call returned or raised, and what it emitted
    table,          \* the DataFrame handed to priority_filter
    fcall,          \* the arguments of the last priority_filter call
    fret            \* what that call returned or raised, and what it emitted

vars == <<path_pattern, file_pattern, test_paths, call, ret, table, fcall, fret>>

finderVars == <<path_pattern, file_pattern, test_paths, call, ret>>

filterVars == <<table, fcall, fret>>

-----------------------------------------------------------------------------
(* Bounds of the model *)

\* longest string handed to sorted(..., key=natural_keys) in SpecSort
MaxName == 3

\* longest value given to create_name
MaxValue == 2

\* most paths the path provider holds in Spec
MaxPaths == 2

\* most rows of a table handed to priority_filter
MaxRows == 3

-----------------------------------------------------------------------------
(* Characters and strings *)

sep == "/"

Digits == {"0", "1", "2"}

LowerCase == {"a", "b", "c", "d", "e", "k", "l", "m", "n", "o", "p", "r", "s", "t", "w", "x", "y"}

UpperCase == {"A", "B"}

\* the characters of the regular expression class [A-Za-z0-9_]
WordChars == Digits \cup LowerCase \cup UpperCase \cup {"_"}

\* every character of the model
Chars == WordChars \cup {"*", sep, ":", "{", "}"}

\* str.lower on one character: how re.IGNORECASE compares characters
lower(c) ==
    CASE c = "A" -> "a"
      [] c = "B" -> "b"
      [] OTHER -> c

\* the code point of a character: the order of Python's string comparison
ord(c) ==
    CASE c = "*" -> 42
      [] c = "/" -> 47
      [] c = "0" -> 48
      [] c = "1" -> 49
      [] c = "2" -> 50
      [] c = ":" -> 58
      [] c = "A" -> 65
      [] c = "B" -> 66
      [] c = "_" -> 95
      [] c = "a" -> 97
      [] c = "b" -> 98
      [] c = "c" -> 99
      [] c = "d" -> 100
      [] c = "e" -> 101
      [] c = "k" -> 107
      [] c = "l" -> 108
      [] c = "m" -> 109
      [] c = "n" -> 110
      [] c = "o" -> 111
      [] c = "p" -> 112
      [] c = "r" -> 114
      [] c = "s" -> 115
      [] c = "t" -> 116
      [] c = "w" -> 119
      [] c = "x" -> 120
      [] c = "y" -> 121
      [] c = "{" -> 123
      [] c = "}" -> 125
      [] OTHER -> 0

\* int(c) of a digit character
digit(c) == ord(c) - ord("0")

lowerStr(s) == [i \in 1..Len(s) |-> lower(s[i])]

\* s[from:] as far as the first character outside chars (the longest run)
RECURSIVE RunEnd(_, _, _)
RunEnd(s, i, chars) ==
    IF i <= Len(s) /\ s[i] \in chars THEN RunEnd(s, i + 1, chars) ELSE i

\* str.find(c, i): the first position >= i holding c, 0 when there is none
RECURSIVE IndexOf(_, _, _)
IndexOf(s, c, i) ==
    IF i > Len(s) THEN 0
    ELSE IF s[i] = c THEN i
    ELSE IndexOf(s, c, i + 1)

\* the strings over chars of length at most n
RECURSIVE StringsUpTo(_, _)
StringsUpTo(chars, n) ==
    IF n = 0 THEN {<<>>}
    ELSE LET shorter == StringsUpTo(chars, n - 1)
         IN shorter \cup {Append(s, c) : s \in shorter, c \in chars}

\* the sequences over S of length at most n
RECURSIVE SeqsUpTo(_, _)
SeqsUpTo(S, n) ==
    IF n = 0 THEN {<<>>}
    ELSE LET shorter == SeqsUpTo(S, n - 1)
         IN shorter \cup {Append(s, x) : s \in shorter, x \in S}

Range(s) == {s[i] : i \in 1..Len(s)}

-----------------------------------------------------------------------------
(* utils.py *)

\* pd.Series(keys).unique(): the distinct elements in first-occurrence order
RECURSIVE unique(_)
unique(keys) ==
    IF keys = <<>> THEN <<>>
    ELSE LET front == unique(SubSeq(keys, 1, Len(keys) - 1))
             last == keys[Len(keys)]
         IN IF last \in Range(front) THEN front ELSE Append(front, last)

\* re.findall(r"\{([A-Za-z0-9_]+)(?::.*?)?\}", string) from position i on:
\* the names of the non-overlapping matches, scanning from the left
RECURSIVE findall_keys(_, _)
findall_keys(string, i) ==
    IF i > Len(string) THEN <<>>
    ELSE IF string[i] # "{" THEN findall_keys(string, i + 1)
    ELSE LET j == RunEnd(string, i + 1, WordChars)
             close == IF j <= Len(string) /\ string[j] = "}" THEN j
                      ELSE IF j <= Len(string) /\ string[j] = ":"
                           THEN IndexOf(string, "}", j + 1)
                      ELSE 0
         IN IF j > i + 1 /\ close # 0
            THEN <<SubSeq(string, i + 1, j - 1)>> \o findall_keys(string, close + 1)
            ELSE findall_keys(string, i + 1)

find_keys(string) == unique(findall_keys(string, 1))

\* a key that leaves the text whole
natural_keys_plain(text) == <<[isnum |-> FALSE, n |-> 0, s |-> text]>>

\* re.split(r"(\d+)", text) with atoi on every part: the parts alternate
\* between text (possibly empty) and the value of a run of digits
RECURSIVE atoi(_, _)
atoi(text, acc) ==
    IF text = <<>> THEN acc ELSE atoi(Tail(text), 10 * acc + digit(Head(text)))

RECURSIVE natural_keys(_)
natural_keys(text) ==
    LET i == RunEnd(text, 1, Chars \ Digits)
        j == RunEnd(text, i, Digits)
    IN IF i > Len(text) THEN <<[isnum |-> FALSE, n |-> 0, s |-> text]>>
       ELSE <<[isnum |-> FALSE, n |-> 0, s |-> SubSeq(text, 1, i - 1)],
              [isnum |-> TRUE, n |-> atoi(SubSeq(text, i, j - 1), 0), s |-> <<>>]>>
            \o natural_keys(SubSeq(text, j, Len(text)))

\* s < t for Python strings: by code point, a proper prefix first
RECURSIVE str_lt(_, _)
str_lt(s, t) ==
    IF t = <<>> THEN FALSE
    ELSE IF s = <<>> THEN TRUE
    ELSE IF Head(s) # Head(t) THEN ord(Head(s)) < ord(Head(t))
    ELSE str_lt(Tail(s), Tail(t))

\* k < l for the lists natural_keys returns (list comparison of Python)
RECURSIVE keys_lt(_, _)
keys_lt(k, l) ==
    IF l = <<>> THEN FALSE
    ELSE IF k = <<>> THEN TRUE
    ELSE IF Head(k) = Head(l) THEN keys_lt(Tail(k), Tail(l))
    ELSE IF Head(k).isnum THEN Head(k).n < Head(l).n
    ELSE str_lt(Head(k).s, Head(l).s)

\* sorted(paths, key=natural_keys): a stable sort
RECURSIVE insert_sorted(_, _)
insert_sorted(sorted, p) ==
    IF sorted = <<>> THEN <<p>>
    ELSE LET last == sorted[Len(sorted)]
         IN IF keys_lt(natural_keys(p), natural_keys(last))
            THEN Append(insert_sorted(SubSeq(sorted, 1, Len(sorted) - 1), p), last)
            ELSE Append(sorted, p)

RECURSIVE sorted_natural(_)
sorted_natural(paths) ==
    IF paths = <<>> THEN <<>>
    ELSE insert_sorted(sorted_natural(SubSeq(paths, 1, Len(paths) - 1)),
                       paths[Len(paths)])

-----------------------------------------------------------------------------
(* Results: a call either returns a value or raises *)

Ok(v) == [ok |-> TRUE, v |-> v, err |-> ""]

Raise(e) == [ok |-> FALSE, v |-> <<>>, err |-> e]

\* d | {k: v}: dict d with key k set to v
SetKey(d, k, v) == [x \in DOMAIN d \cup {k} |-> IF x = k THEN v ELSE d[x]]

\* d | e for two dicts, e taking precedence (utils.py, update_dict_with_kwargs)
update_dict_with_kwargs(d, e) ==
    [x \in DOMAIN d \cup DOMAIN e |-> IF x \in DOMAIN e THEN e[x] ELSE d[x]]

-----------------------------------------------------------------------------
(* _FinderBase: the compiled template *)

\* re.sub(r"\{([A-Za-z0-9_]+)(:.*?)\}", r"{\1}", pattern) from position i on
RECURSIVE sub_fmt_spec(_, _)
sub_fmt_spec(pattern, i) ==
    IF i > Len(pattern) THEN <<>>
    ELSE IF pattern[i] # "{" THEN <<pattern[i]>> \o sub_fmt_spec(pattern, i + 1)
    ELSE LET j == RunEnd(pattern, i + 1, WordChars)
             close == IF j <= Len(pattern) /\ pattern[j] = ":"
                      THEN IndexOf(pattern, "}", j + 1)
                      ELSE 0
         IN IF j > i + 1 /\ close # 0
            THEN <<"{">> \o SubSeq(pattern, i + 1, j - 1) \o <<"}">>
                 \o sub_fmt_spec(pattern, close + 1)
            ELSE <<"{">> \o sub_fmt_spec(pattern, i + 1)

pattern_no_fmt_spec(pattern) == sub_fmt_spec(pattern, 1)

\* format(value, spec) for a str value: the empty spec gives the value itself
\* and the type code d is refused for a str
format_value(value, spec) ==
    IF spec = <<>> THEN Ok(value) ELSE Raise("ValueError")

\* str.format(**keys) from position i on: {name} and {name:spec} are replaced,
\* {{ and }} stand for a brace, a name without value raises KeyError, an empty
\* name asks for a positional argument and there is none
RECURSIVE format(_, _, _)
format(fmt, i, keys) ==
    IF i > Len(fmt) THEN Ok(<<>>)
    ELSE LET c == fmt[i]
             twice == i < Len(fmt) /\ fmt[i + 1] = c
             close == IndexOf(fmt, "}", i + 1)
             colon == IndexOf(SubSeq(fmt, 1, IF close = 0 THEN 0 ELSE close - 1), ":", i + 1)
             name == SubSeq(fmt, i + 1, (IF colon # 0 THEN colon ELSE close) - 1)
             spec == IF colon # 0 THEN SubSeq(fmt, colon + 1, close - 1) ELSE <<>>
             next == IF c \in {"{", "}"} /\ ~twice THEN close + 1
                     ELSE IF twice /\ c \in {"{", "}"} THEN i + 2
                     ELSE i + 1
             here == IF c \notin {"{", "}"} \/ twice THEN Ok(<<c>>)
                     ELSE IF c = "}" \/ close = 0 THEN Raise("ValueError")
                     ELSE IF name = <<>> THEN Raise("IndexError")
                     ELSE IF name \notin DOMAIN keys THEN Raise("KeyError")
                     ELSE format_value(keys[name], spec)
         IN IF ~here.ok THEN here
            ELSE LET rest == format(fmt, next, keys)
                 IN IF rest.ok THEN Ok(here.v \o rest.v) ELSE rest

\* _FinderBase.create_name
create_name(pattern, keys, keys_kwargs) ==
    format(pattern_no_fmt_spec(pattern), 1, update_dict_with_kwargs(keys, keys_kwargs))

-----------------------------------------------------------------------------
(* parse.compile(pattern) and Parser.parse, as _FinderBase uses them *)

Lit(c) == [kind |-> "lit", name |-> <<c>>, spec |-> <<>>]

Fld(name, spec) == [kind |-> "fld", name |-> name, spec |-> spec]

\* how the parser splits a format: {{ and }} are braces, {name} and
\* {name:spec} (a spec of at least one character) are fields, all else is text
RECURSIVE tokens(_, _)
tokens(pattern, i) ==
    IF i > Len(pattern) THEN <<>>
    ELSE LET c == pattern[i]
             twice == i < Len(pattern) /\ pattern[i + 1] = c
             j == RunEnd(pattern, i + 1, WordChars)
             close == IF j <= Len(pattern) /\ pattern[j] = "}" THEN j
                      ELSE IF j <= Len(pattern) /\ pattern[j] = ":"
                                /\ IndexOf(pattern, "}", j + 1) > j + 1
                           THEN IndexOf(pattern, "}", j + 1)
                      ELSE 0
         IN IF c \in {"{", "}"} /\ twice
            THEN <<Lit(c)>> \o tokens(pattern, i + 2)
            ELSE IF c = "{" /\ close # 0
            THEN <<Fld(SubSeq(pattern, i + 1, j - 1),
                       SubSeq(pattern, j + 1, close - 1))>>
                 \o tokens(pattern, close + 1)
            ELSE <<Lit(c)>> \o tokens(pattern, i + 1)

\* a field is named when its name starts with a letter; any other field is
\* counted in Parser.fixed_fields
is_named(tok) ==
    tok.kind = "fld" /\ tok.name # <<>> /\ tok.name[1] \in LowerCase \cup UpperCase

fixed_fields(toks) == {i \in 1..Len(toks) : toks[i].kind = "fld" /\ ~is_named(toks[i])}

\* a name repeated with another format spec: RepeatedNameError
repeated_name_error(toks) ==
    \E i, j \in 1..Len(toks) :
        /\ is_named(toks[i]) /\ is_named(toks[j])
        /\ toks[i].name = toks[j].name /\ toks[i].spec # toks[j].spec

NoMatch == [ok |-> FALSE, named |-> <<>>]

\* the regular expression of the format matched against string from position
\* pos on, with backtracking in the order of the re module: text matches
\* itself ignoring case (re.IGNORECASE is the parser's default), the first
\* field of a name is the group (.+?), which tries the shortest value first,
\* and every later field of that name is the backreference (?P=name)
RECURSIVE match(_, _, _, _, _)
RECURSIVE match_field(_, _, _, _, _, _)
match(toks, i, string, pos, named) ==
    IF i > Len(toks)
    THEN IF pos = Len(string) + 1 THEN [ok |-> TRUE, named |-> named] ELSE NoMatch
    ELSE LET tok == toks[i]
         IN IF tok.kind = "lit"
            THEN IF pos <= Len(string) /\ lower(string[pos]) = lower(tok.name[1])
                 THEN match(toks, i + 1, string, pos + 1, named)
                 ELSE NoMatch
            ELSE IF tok.name \in DOMAIN named
            THEN LET seen == named[tok.name]
                     stop == pos + Len(seen) - 1
                 IN IF stop <= Len(string)
                       /\ lowerStr(SubSeq(string, pos, stop)) = lowerStr(seen)
                    THEN match(toks, i + 1, string, stop + 1, named)
                    ELSE NoMatch
            ELSE match_field(toks, i, string, pos, named, 1)

match_field(toks, i, string, pos, named, n) ==
    IF pos + n - 1 > Len(string) THEN NoMatch
    ELSE LET value == SubSeq(string, pos, pos + n - 1)
             rest == match(toks, i + 1, string, pos + n,
                           SetKey(named, toks[i].name, value))
         IN IF rest.ok THEN rest ELSE match_field(toks, i, string, pos, named, n + 1)

\* a parser that folds the letter case of the string before it matches
parse_folded(pattern, string) ==
    match(tokens(pattern, 1), 1, lowerStr(string), 1, <<>>)

\* Parser.parse(string): ok and Result.named, or None
parse(pattern, string) == match(tokens(pattern, 1), 1, string, 1, <<>>)

-----------------------------------------------------------------------------
(* _FinderBase.__init__ *)

RESERVED_PLACEHOLDERS ==
    { <<"k", "e", "y", "s">>,
      <<"o", "n", "_", "p", "a", "r", "s", "e", "_", "e", "r", "r", "o", "r">>,
      <<"o", "n", "_", "e", "m", "p", "t", "y">>,
      <<"_", "a", "l", "l", "o", "w", "_", "e", "m", "p", "t", "y">> }

\* a check that lets every key pass
assert_valid_keys_any(keys) == Ok(keys)

assert_valid_keys(keys) ==
    IF \E key \in RESERVED_PLACEHOLDERS : key \in Range(keys)
    THEN Raise("not a valid placeholder")
    ELSE Ok(keys)

\* the finder of a pattern, or the error its construction raises
FinderBase_init(pattern, suffix) ==
    LET keys == find_keys(pattern)
        toks == tokens(pattern, 1)
    IN IF ~assert_valid_keys(keys).ok THEN assert_valid_keys(keys)
       ELSE IF repeated_name_error(toks) THEN Raise("RepeatedNameError")
       ELSE IF fixed_fields(toks) # {} THEN Raise("only named fields are allowed")
       ELSE Ok([pattern |-> pattern, keys |-> keys, suffix |-> suffix,
                pattern_no_fmt_spec |-> pattern_no_fmt_spec(pattern)])

-----------------------------------------------------------------------------
(* FileFinder: its three finders and the path provider of test_paths *)

endswith_sep(s) == s # <<>> /\ s[Len(s)] = sep

\* os.path.join(a, b)
join(a, b) ==
    IF b # <<>> /\ b[1] = sep THEN b
    ELSE IF a = <<>> \/ endswith_sep(a) THEN a \o b
    ELSE a \o <<sep>> \o b

\* FileFinder.path.pattern: os.path.join(path_pattern, "")
path_finder_pattern(pp) == join(pp, <<>>)

\* FileFinder.full.pattern: os.path.join(*filter(None, (path_pattern, file_pattern)))
full_finder_pattern(pp, fp) ==
    IF pp = <<>> THEN fp ELSE IF fp = <<>> THEN pp ELSE join(pp, fp)

\* the _Finder a find_paths ("path") or find_files ("full") call works on
Finder(which) ==
    IF which = "path"
    THEN [pattern |-> path_finder_pattern(path_pattern), suffix |-> <<"*">>]
    ELSE [pattern |-> full_finder_pattern(path_pattern, file_pattern), suffix |-> <<>>]

\* FileFinder(path_pattern, file_pattern): its three finders, or the error
\* of the first that fails
FileFinder_init(pp, fp) ==
    IF sep \in Range(fp) THEN Raise("file_pattern cannot contain path separator")
    ELSE LET file == FinderBase_init(fp, <<>>)
             path == FinderBase_init(path_finder_pattern(pp), <<"*">>)
             full == FinderBase_init(full_finder_pattern(pp, fp), <<>>)
         IN IF ~file.ok THEN file
            ELSE IF ~path.ok THEN path
            ELSE IF ~full.ok THEN full
            ELSE Ok([file |-> file.v, path |-> path.v, full |-> full.v])

\* str.rstrip("/")
RECURSIVE rstrip_sep(_)
rstrip_sep(s) ==
    IF endswith_sep(s) THEN rstrip_sep(SubSeq(s, 1, Len(s) - 1)) ELSE s

\* str.rfind("/") + 1
RECURSIVE rfind_sep(_)
rfind_sep(s) ==
    IF s = <<>> THEN 0
    ELSE IF s[Len(s)] = sep THEN Len(s)
    ELSE rfind_sep(SubSeq(s, 1, Len(s) - 1))

\* os.path.dirname
dirname(s) ==
    LET head == SubSeq(s, 1, rfind_sep(s))
    IN IF rstrip_sep(head) = <<>> THEN head ELSE rstrip_sep(head)

\* fnmatch.fnmatchcase(name, pat), for patterns of text, * and ?
RECURSIVE fnmatch(_, _)
fnmatch(name, pat) ==
    IF pat = <<>> THEN name = <<>>
    ELSE IF Head(pat) = "*"
    THEN fnmatch(name, Tail(pat)) \/ (name # <<>> /\ fnmatch(Tail(name), pat))
    ELSE /\ name # <<>>
         /\ Head(pat) = "?" \/ Head(pat) = Head(name)
         /\ fnmatch(Tail(name), Tail(pat))

\* fnmatch.filter(names, pat): the matching names, in the order of names
RECURSIVE fnmatch_filter(_, _)
fnmatch_filter(names, pat) ==
    IF names = <<>> THEN <<>>
    ELSE (IF fnmatch(Head(names), pat) THEN <<Head(names)>> ELSE <<>>)
         \o fnmatch_filter(Tail(names), pat)

\* the finder(pat) that _set_test_paths puts in the place of _glob
glob(paths, pat) ==
    IF endswith_sep(pat)
    THEN fnmatch_filter([i \in 1..Len(paths) |-> dirname(paths[i]) \o <<sep>>], pat)
    ELSE fnmatch_filter(paths, pat)

\* the directories of a file system that holds the files and nothing else
directories(files) ==
    UNION {{SubSeq(files[n], 1, i - 1) :
                i \in {j \in 2..Len(files[n]) : files[n][j] = sep}} :
           n \in 1..Len(files)}

\* one path against a glob pattern: * and ? stay within a path component
RECURSIVE glob_match(_, _)
glob_match(name, pat) ==
    IF pat = <<>> THEN name = <<>>
    ELSE IF Head(pat) = "*"
    THEN glob_match(name, Tail(pat))
         \/ (name # <<>> /\ Head(name) # sep /\ glob_match(Tail(name), pat))
    ELSE /\ name # <<>>
         /\ (Head(pat) = "?" /\ Head(name) # sep) \/ Head(pat) = Head(name)
         /\ glob_match(Tail(name), Tail(pat))

\* _Finder._glob, glob.glob(pattern), on that file system: the set of the
\* files and directories that match, a pattern ending in the separator
\* matching directories only, each with the separator after it
glob_glob(files, pattern) ==
    IF endswith_sep(pattern)
    THEN {d \o <<sep>> : d \in {e \in directories(files) :
                                   glob_match(e, SubSeq(pattern, 1, Len(pattern) - 1))}}
    ELSE {e \in Range(files) \cup directories(files) : glob_match(e, pattern)}

-----------------------------------------------------------------------------
(* _Finder.find *)

\* A query (the dict keys) is a sequence of entries [k |-> name, v |-> value],
\* with distinct names, in the order of the dict; a value is a scalar
\* [islist |-> FALSE, val |-> string] or a list [islist |-> TRUE, val |-> strings]

RECURSIVE concat(_)
concat(seqs) == IF seqs = <<>> THEN <<>> ELSE Head(seqs) \o concat(Tail(seqs))

\* a string taken for the list of its characters
wrap_scalar_chars(value) ==
    IF value.islist THEN value.val ELSE [i \in 1..Len(value.val) |-> <<value.val[i]>>]

\* "wrap strings and scalars in list"
wrap_scalar(value) == IF value.islist THEN value.val ELSE <<value.val>>

\* the candidates of the first key, each with the first candidates of the rest
RECURSIVE product_dict_first(_)
product_dict_first(keys) ==
    IF keys = <<>> THEN << <<>> >>
    ELSE LET rest == product_dict_first(Tail(keys))
             k == Head(keys).k
             items == Head(keys).v
         IN IF rest = <<>> THEN <<>>
            ELSE [i \in 1..Len(items) |-> SetKey(rest[1], k, items[i])]

\* product_dict(**keys): one dict per element of itertools.product of the
\* candidate lists, the last key varying fastest
RECURSIVE product_dict(_)
product_dict(keys) ==
    IF keys = <<>> THEN << <<>> >>
    ELSE LET rest == product_dict(Tail(keys))
             k == Head(keys).k
             items == Head(keys).v
         IN concat([i \in 1..Len(items) |->
                       [j \in 1..Len(rest) |-> SetKey(rest[j], k, items[i])]])

\* _create_condition_dict: "*" for every key of the template, then the query
create_condition_dict(pattern, one_search_dict) ==
    update_dict_with_kwargs([k \in Range(find_keys(pattern)) |-> <<"*">>],
                            one_search_dict)

\* _parse_paths from path number i on: the rows of the parsable paths, the
\* warnings, or the error of the first path that cannot be parsed
RECURSIVE parse_paths(_, _, _, _)
parse_paths(finder, paths, i, on_parse_error) ==
    IF i > Len(paths) THEN [ok |-> TRUE, err |-> "", rows |-> <<>>, warnings |-> <<>>]
    ELSE LET parsed == parse(finder.pattern, paths[i])
             rest == parse_paths(finder, paths, i + 1, on_parse_error)
             row == [path |-> paths[i] \o finder.suffix, named |-> parsed.named]
             warning == [category |-> "could not parse", path |-> paths[i]]
         IN IF ~parsed.ok /\ on_parse_error = "raise"
            THEN [ok |-> FALSE, err |-> "could not parse", rows |-> <<>>,
                  warnings |-> <<>>]
            ELSE IF ~rest.ok THEN rest
            ELSE IF parsed.ok THEN [rest EXCEPT !.rows = <<row>> \o @]
            ELSE IF on_parse_error = "warn"
            THEN [rest EXCEPT !.warnings = <<warning>> \o @]
            ELSE rest

\* the rows that equal an earlier row in values and index
duplicated_with_index(rows) ==
    {i \in 1..Len(rows) : \E j \in 1..(i - 1) : rows[j] = rows[i]}

\* df.duplicated(): the rows whose values equal those of an earlier row (the
\* index takes no part); a frame without columns is empty to pandas, which
\* then marks no row
duplicated(rows) ==
    IF \A i \in 1..Len(rows) : DOMAIN rows[i].named = {} THEN {}
    ELSE {i \in 1..Len(rows) : \E j \in 1..(i - 1) : rows[j].named = rows[i].named}

\* a find that never warns of an empty result
find_silent(finder, paths, keys, on_parse_error, on_empty) ==
    LET none == [ok |-> FALSE, err |-> "", df |-> [columns |-> <<>>, rows |-> <<>>],
                 warnings |-> <<>>,
                 all_patterns |-> <<>>, all_paths |-> <<>>]
        wrapped == [i \in 1..Len(keys) |->
                       [k |-> keys[i].k, v |-> wrap_scalar(keys[i].v)]]
        dicts == product_dict(wrapped)
        names == [i \in 1..Len(dicts) |->
                     create_name(finder.pattern, <<>>,
                                 create_condition_dict(finder.pattern, dicts[i]))]
        failed == {i \in 1..Len(dicts) : ~names[i].ok}
        all_patterns == [i \in 1..Len(dicts) |-> names[i].v]
        all_paths == concat([i \in 1..Len(dicts) |->
                                sorted_natural(glob(paths, all_patterns[i]))])
        found == [none EXCEPT !.all_patterns = all_patterns, !.all_paths = all_paths]
        empty == <<>>
        parsed == parse_paths(finder, all_paths, 1, on_parse_error)
    IN IF on_parse_error \notin {"raise", "warn", "ignore"}
       THEN [none EXCEPT !.err = "unknown on_parse_error"]
       ELSE IF on_empty \notin {"raise", "warn", "allow"}
       THEN [none EXCEPT !.err = "unknown on_empty"]
       ELSE IF failed # {}
       THEN [none EXCEPT !.err = names[CHOOSE i \in failed : \A j \in failed : i <= j].err]
       ELSE IF all_paths = <<>> /\ on_empty = "raise"
       THEN [found EXCEPT !.err = "found no files"]
       ELSE IF ~parsed.ok
       THEN [found EXCEPT !.err = parsed.err, !.warnings = empty]
       ELSE IF duplicated(parsed.rows) # {}
       THEN [found EXCEPT !.err = "non-unique metadata",
                          !.warnings = empty \o parsed.warnings]
       ELSE [found EXCEPT !.ok = TRUE, !.warnings = empty \o parsed.warnings,
                          !.df = [columns |-> find_keys(finder.pattern),
                                  rows |-> parsed.rows]]

\* _Finder.find(keys, on_parse_error=..., on_empty=...) on the finder, with
\* paths what the path provider holds
find(finder, paths, keys, on_parse_error, on_empty) ==
    LET none == [ok |-> FALSE, err |-> "", df |-> [columns |-> <<>>, rows |-> <<>>],
                 warnings |-> <<>>,
                 all_patterns |-> <<>>, all_paths |-> <<>>]
        wrapped == [i \in 1..Len(keys) |->
                       [k |-> keys[i].k, v |-> wrap_scalar(keys[i].v)]]
        dicts == product_dict(wrapped)
        names == [i \in 1..Len(dicts) |->
                     create_name(finder.pattern, <<>>,
                                 create_condition_dict(finder.pattern, dicts[i]))]
        failed == {i \in 1..Len(dicts) : ~names[i].ok}
        all_patterns == [i \in 1..Len(dicts) |-> names[i].v]
        all_paths == concat([i \in 1..Len(dicts) |->
                                sorted_natural(glob(paths, all_patterns[i]))])
        found == [none EXCEPT !.all_patterns = all_patterns, !.all_paths = all_paths]
        empty == IF all_paths = <<>> /\ on_empty = "warn"
                 THEN <<[category |-> "found no files", path |-> <<>>]>>
                 ELSE <<>>
        parsed == parse_paths(finder, all_paths, 1, on_parse_error)
    IN IF on_parse_error \notin {"raise", "warn", "ignore"}
       THEN [none EXCEPT !.err = "unknown on_parse_error"]
       ELSE IF on_empty \notin {"raise", "warn", "allow"}
       THEN [none EXCEPT !.err = "unknown on_empty"]
       ELSE IF failed # {}
       THEN [none EXCEPT !.err = names[CHOOSE i \in failed : \A j \in failed : i <= j].err]
       ELSE IF all_paths = <<>> /\ on_empty = "raise"
       THEN [found EXCEPT !.err = "found no files"]
       ELSE IF ~parsed.ok
       THEN [found EXCEPT !.err = parsed.err, !.warnings = empty]
       ELSE IF duplicated(parsed.rows) # {}
       THEN [found EXCEPT !.err = "non-unique metadata",
                          !.warnings = empty \o parsed.warnings]
       ELSE [found EXCEPT !.ok = TRUE, !.warnings = empty \o parsed.warnings,
                          !.df = [columns |-> find_keys(finder.pattern),
                                  rows |-> parsed.rows]]

\* _Finder.find_single: find with both policies "raise", and no more than
\* one row
find_single(finder, paths, keys) ==
    LET fc == find(finder, paths, keys, "raise", "raise")
    IN IF fc.ok /\ Len(fc.df.rows) > 1
       THEN [fc EXCEPT !.ok = FALSE, !.err = "found more than one",
                       !.df = [columns |-> <<>>, rows |-> <<>>]]
       ELSE fc

-----------------------------------------------------------------------------
(* filters.py: priority_filter *)

\* A DataFrame is [columns |-> names, rows |-> rows]; a row is
\* [path |-> its index label, named |-> column -> value]

\* the label RangeIndex gives row number i (from 0), written as a string
range_label(i) == <<<<"0", "1", "2", "3", "4", "5", "6", "7", "8", "9">>[i + 1]>>

\* the tuple of a row's values over the columns groupby
group_key(row, groupby) == [i \in 1..Len(groupby) |-> row.named[groupby[i]]]

\* pd.MultiIndex.from_frame(obj[groupby]): one tuple per row
MultiIndex(rows, groupby) == [i \in 1..Len(rows) |-> group_key(rows[i], groupby)]

\* mi.has_duplicates
\* an index that is always taken to hold a key twice
has_duplicates_always(mi) == TRUE

has_duplicates(mi) == \E i, j \in 1..Len(mi) : i < j /\ mi[i] = mi[j]

\* df.iloc[locs]: the rows at the positions locs, in their order
RECURSIVE iloc(_, _, _)
iloc(rows, locs, i) ==
    IF i > Len(rows) THEN <<>>
    ELSE (IF i \in locs THEN <<rows[i]>> ELSE <<>>) \o iloc(rows, locs, i + 1)

\* the first row of the group only
one_group_first(rows, groupby, idx) ==
    <<rows[CHOOSE i \in 1..Len(rows) :
               /\ group_key(rows[i], groupby) = idx
               /\ \A j \in 1..(i - 1) : group_key(rows[j], groupby) # idx]>>

\* df.iloc[multiindex.get_locs(idx)]: the rows of one group
one_group(rows, groupby, idx) ==
    iloc(rows, {i \in 1..Len(rows) : group_key(rows[i], groupby) = idx}, 1)

\* the last element of order found in the column key of the group
RECURSIVE last_found(_, _, _, _)
last_found(one, key, order, n) ==
    IF n > Len(order) THEN 0
    ELSE LET later == last_found(one, key, order, n + 1)
         IN IF later # 0 THEN later
            ELSE IF \E i \in 1..Len(one) : one[i].named[key] = order[n] THEN n
            ELSE 0

\* the first element of order found in the column key of the group, as its
\* position in order; 0 when none is found
RECURSIVE first_found(_, _, _, _)
first_found(one, key, order, n) ==
    IF n > Len(order) THEN 0
    ELSE IF \E i \in 1..Len(one) : one[i].named[key] = order[n] THEN n
    ELSE first_found(one, key, order, n + 1)

\* a loop that keeps a group of one row as it is
RECURSIVE prioritize_from_single(_, _, _, _, _, _, _)
prioritize_from_single(rows, key, order, on_missing, groupby, groups, g) ==
    IF g > Len(groups) THEN [ok |-> TRUE, err |-> "", out |-> <<>>, warnings |-> <<>>]
    ELSE LET one == one_group(rows, groupby, groups[g])
             n == first_found(one, key, order, 1)
             selected == iloc(one, {i \in 1..Len(one) : one[i].named[key] = order[n]}, 1)
             rest == prioritize_from_single(rows, key, order, on_missing, groupby,
                                            groups, g + 1)
             warning == [category |-> "did not find", group |-> groups[g]]
         IN IF Len(one) = 1
            THEN (IF rest.ok THEN [rest EXCEPT !.out = one \o @] ELSE rest)
            ELSE IF n # 0 /\ Len(selected) # 1
            THEN [ok |-> FALSE, err |-> "found more than one", out |-> <<>>,
                  warnings |-> <<>>]
            ELSE IF n = 0 /\ on_missing = "raise"
            THEN [ok |-> FALSE, err |-> "did not find", out |-> <<>>,
                  warnings |-> <<>>]
            ELSE IF ~rest.ok
            THEN [rest EXCEPT !.warnings =
                      (IF n = 0 /\ on_missing = "warn" THEN <<warning>> ELSE <<>>) \o @]
            ELSE IF n # 0 THEN [rest EXCEPT !.out = selected \o @]
            ELSE IF on_missing = "warn" THEN [rest EXCEPT !.warnings = <<warning>> \o @]
            ELSE rest

\* one pass of the loop of _prioritize, for group number g of groups: what the
\* groups from g on append to out, their warnings, or the first error raised
RECURSIVE prioritize_from(_, _, _, _, _, _, _)
prioritize_from(rows, key, order, on_missing, groupby, groups, g) ==
    IF g > Len(groups) THEN [ok |-> TRUE, err |-> "", out |-> <<>>, warnings |-> <<>>]
    ELSE LET one == one_group(rows, groupby, groups[g])
             n == first_found(one, key, order, 1)
             selected == iloc(one, {i \in 1..Len(one) : one[i].named[key] = order[n]}, 1)
             rest == prioritize_from(rows, key, order, on_missing, groupby, groups, g + 1)
             warning == [category |-> "did not find", group |-> groups[g]]
         IN IF n # 0 /\ Len(selected) # 1
            THEN [ok |-> FALSE, err |-> "found more than one", out |-> <<>>,
                  warnings |-> <<>>]
            ELSE IF n = 0 /\ on_missing = "raise"
            THEN [ok |-> FALSE, err |-> "did not find", out |-> <<>>,
                  warnings |-> <<>>]
            ELSE IF ~rest.ok
            THEN [rest EXCEPT !.warnings =
                      (IF n = 0 /\ on_missing = "warn" THEN <<warning>> ELSE <<>>) \o @]
            ELSE IF n # 0 THEN [rest EXCEPT !.out = selected \o @]
            ELSE IF on_missing = "warn" THEN [rest EXCEPT !.warnings = <<warning>> \o @]
            ELSE rest

\* df.reset_index(drop=True): the index is replaced by a RangeIndex
reset_index(rows) ==
    [i \in 1..Len(rows) |-> [rows[i] EXCEPT !.path = range_label(i - 1)]]

\* _prioritize(df, key, order, on_missing, multiindex)
prioritize(rows, key, order, on_missing, groupby) ==
    LET groups == unique(MultiIndex(rows, groupby))
        looped == prioritize_from(rows, key, order, on_missing, groupby, groups, 1)
    IN IF ~looped.ok THEN looped
       ELSE IF looped.out = <<>>
       THEN [looped EXCEPT !.ok = FALSE, !.err = "No objects to concatenate"]
       ELSE [looped EXCEPT !.out = reset_index(@)]

\* groupby=None: set(obj.columns) - {column, "filename"}, in the order of columns
default_groupby(columns, column) ==
    iloc(columns, {i \in 1..Len(columns) : columns[i] \notin {column, "filename"}}, 1)

\* a filter that drops the first row of every group of several rows
priority_filter_drop_one(obj, column, order, on_missing_arg, groupby_arg) ==
    LET groupby == IF groupby_arg.none THEN default_groupby(obj.columns, column)
                   ELSE groupby_arg.by
        mi == MultiIndex(obj.rows, groupby)
        dropped == {i \in 1..Len(mi) : /\ \A j \in 1..(i - 1) : mi[j] # mi[i]
                                       /\ \E j \in (i + 1)..Len(mi) : mi[j] = mi[i]}
    IN [ok |-> TRUE, err |-> "", warnings |-> <<>>,
        df |-> [columns |-> obj.columns,
                rows |-> iloc(obj.rows, (1..Len(mi)) \ dropped, 1)]]

\* a filter that does not look whether the column is grouped by
priority_filter_any_groupby(obj, column, order, on_missing_arg, groupby_arg) ==
    LET on_missing == IF on_missing_arg = "error" THEN "raise" ELSE on_missing_arg
        renamed == IF on_missing_arg = "error"
                   THEN <<[category |-> "FutureWarning", group |-> <<>>]>>
                   ELSE <<>>
        none == [ok |-> FALSE, err |-> "", df |-> [columns |-> <<>>, rows |-> <<>>],
                 warnings |-> renamed]
        groupby == IF groupby_arg.none THEN default_groupby(obj.columns, column)
                   ELSE groupby_arg.by
        mi == MultiIndex(obj.rows, groupby)
        done == prioritize(obj.rows, column, order, on_missing, groupby)
    IN IF on_missing \notin {"raise", "warn", "ignore"}
       THEN [none EXCEPT !.err = "unknown on_missing"]
       ELSE IF column \notin Range(obj.columns)
       THEN [none EXCEPT !.err = "column must be available"]
       ELSE IF ~has_duplicates(mi)
       THEN [none EXCEPT !.ok = TRUE, !.df = obj]
       ELSE IF ~done.ok
       THEN [none EXCEPT !.err = done.err, !.warnings = renamed \o done.warnings]
       ELSE IF has_duplicates(MultiIndex(done.out, groupby))
       THEN [none EXCEPT !.err = "Something went wrong",
                         !.warnings = renamed \o done.warnings]
       ELSE [none EXCEPT !.ok = TRUE, !.warnings = renamed \o done.warnings,
                         !.df = [columns |-> obj.columns, rows |-> done.out]]

\* priority_filter(obj, column, order, on_missing=..., groupby=...); groupby is
\* [none |-> TRUE] for None and [none |-> FALSE, by |-> columns] for a list
priority_filter(obj, column, order, on_missing_arg, groupby_arg) ==
    LET on_missing == IF on_missing_arg = "error" THEN "raise" ELSE on_missing_arg
        renamed == IF on_missing_arg = "error"
                   THEN <<[category |-> "FutureWarning", group |-> <<>>]>>
                   ELSE <<>>
        none == [ok |-> FALSE, err |-> "", df |-> [columns |-> <<>>, rows |-> <<>>],
                 warnings |-> renamed]
        groupby == IF groupby_arg.none THEN default_groupby(obj.columns, column)
                   ELSE groupby_arg.by
        mi == MultiIndex(obj.rows, groupby)
        done == prioritize(obj.rows, column, order, on_missing, groupby)
    IN IF on_missing \notin {"raise", "warn", "ignore"}
       THEN [none EXCEPT !.err = "unknown on_missing"]
       ELSE IF column \notin Range(obj.columns)
       THEN [none EXCEPT !.err = "column must be available"]
       ELSE IF column \in Range(groupby)
       THEN [none EXCEPT !.err = "groupby may not contain column"]
       ELSE IF ~has_duplicates(mi)
       THEN [none EXCEPT !.ok = TRUE, !.df = obj]
       ELSE IF ~done.ok
       THEN [none EXCEPT !.err = done.err, !.warnings = renamed \o done.warnings]
       ELSE IF has_duplicates(MultiIndex(done.out, groupby))
       THEN [none EXCEPT !.err = "Something went wrong",
                         !.warnings = renamed \o done.warnings]
       ELSE [none EXCEPT !.ok = TRUE, !.warnings = renamed \o done.warnings,
                         !.df = [columns |-> obj.columns, rows |-> done.out]]

-----------------------------------------------------------------------------
(* FileContainer.search *)

\* self.df[key].isin(value): the positions of the rows whose value is listed
isin(rows, key, value) == {i \in 1..Len(rows) : rows[i].named[key] \in Range(value)}

\* sel after the loop over the entries of the query from entry number i on
RECURSIVE select(_, _, _)
select(rows, query, i) ==
    IF i > Len(query) THEN 1..Len(rows)
    ELSE isin(rows, query[i].k, wrap_scalar(query[i].v)) \cap select(rows, query, i + 1)

\* a subset that takes the rows that meet any of the conditions
get_subset_any(df, query) ==
    IF query = <<>> THEN [ok |-> TRUE, err |-> "", warnings |-> <<>>,
                          df |-> [columns |-> df.columns, rows |-> <<>>]]
    ELSE IF \E i \in 1..Len(query) : query[i].k \notin Range(df.columns)
    THEN [ok |-> FALSE, err |-> "KeyError", warnings |-> <<>>,
          df |-> [columns |-> <<>>, rows |-> <<>>]]
    ELSE [ok |-> TRUE, err |-> "", warnings |-> <<>>,
          df |-> [columns |-> df.columns,
                  rows |-> iloc(df.rows,
                                UNION {isin(df.rows, query[i].k, wrap_scalar(query[i].v)) :
                                           i \in 1..Len(query)}, 1)]]

\* a subset that takes every row when nothing is asked for
get_subset_all(df, query) ==
    IF \E i \in 1..Len(query) : query[i].k \notin Range(df.columns)
    THEN [ok |-> FALSE, err |-> "KeyError", warnings |-> <<>>,
          df |-> [columns |-> <<>>, rows |-> <<>>]]
    ELSE [ok |-> TRUE, err |-> "", warnings |-> <<>>,
          df |-> [columns |-> df.columns, rows |-> iloc(df.rows, select(df.rows, query, 1), 1)]]

\* FileContainer._get_subset(**query): the empty frame for the empty query,
\* KeyError for a key that is no column, else the rows that meet every condition
get_subset(df, query) ==
    IF query = <<>> THEN [ok |-> TRUE, err |-> "", warnings |-> <<>>,
                          df |-> [columns |-> df.columns, rows |-> <<>>]]
    ELSE IF \E i \in 1..Len(query) : query[i].k \notin Range(df.columns)
    THEN [ok |-> FALSE, err |-> "KeyError", warnings |-> <<>>,
          df |-> [columns |-> <<>>, rows |-> <<>>]]
    ELSE [ok |-> TRUE, err |-> "", warnings |-> <<>>,
          df |-> [columns |-> df.columns, rows |-> iloc(df.rows, select(df.rows, query, 1), 1)]]

\* FileContainer.search(**query)
search(df, query) == get_subset(df, query)

\* priority_filter returns obj itself, not a new frame, when `return obj` is
\* reached with obj never bound anew: the arguments are valid and no group
\* has several rows
priority_filter_returns_obj(obj, column, order, on_missing_arg, groupby_arg) ==
    LET groupby == IF groupby_arg.none THEN default_groupby(obj.columns, column)
                   ELSE groupby_arg.by
    IN /\ priority_filter(obj, column, order, on_missing_arg, groupby_arg).ok
       /\ ~has_duplicates(MultiIndex(obj.rows, groupby))

\* slice(start, stop).indices(n): the positions start..stop-1 within 0..n-1
slice_indices(start, stop, n) ==
    {i \in 0..(n - 1) : start <= i /\ i < stop}

\* FileContainer.__getitem__ with a slice: a container of self.df.iloc[key]
getitem_slice(df, start, stop) ==
    [ok |-> TRUE, err |-> "", warnings |-> <<>>,
     df |-> [columns |-> df.columns,
             rows |-> iloc(df.rows,
                           {i + 1 : i \in slice_indices(start, stop, Len(df.rows))}, 1)]]

-----------------------------------------------------------------------------
(* The inputs of the model *)

\* the FileFinders of the model, as <<path_pattern, file_pattern>>
FileFinders ==
    { << <<"{", "x", "}">>, <<"{", "x", "}">> >>,
      << <<"{", "a", "}">>, <<"{", "b", "}">> >>,
      << <<>>, <<"{", "a", "}", "{", "b", "}">> >>,
      << <<>>, <<"{", "a", "}", "_", "{", "b", "}">> >> }

\* FileFinders whose template has no field, in the path pattern or at all
PlainFinders ==
    { << <<"a">>, <<"b">> >>,
      << <<>>, <<"a", "_", "b">> >>,
      << <<"a">>, <<"{", "b", "}">> >>,
      << <<"{", "a", "}">>, <<"{", "b", "}">> >> }

\* the FileFinders create_name is checked on: those, and one with a letter
\* between its fields
NameFinders == FileFinders \cup { << <<>>, <<"{", "a", "}", "a", "{", "b", "}">> >> }

\* the paths the path provider may hold
PathPool ==
    { <<"a", "/", "a">>, <<"a", "/", "A">>, <<"a", "/", "b">>, <<"a", "_", "b">> }

Scalar(val) == [islist |-> FALSE, val |-> val]

List(val) == [islist |-> TRUE, val |-> val]

Entry(k, v) == [k |-> <<k>>, v |-> v]

\* the queries of the model; the key k is a field of no template
Queries ==
    { <<>>,
      <<Entry("a", Scalar(<<"a">>))>>,
      <<Entry("x", Scalar(<<"a">>))>>,
      <<Entry("a", List(<< <<"a">>, <<"b">> >>))>>,
      <<Entry("x", List(<< <<"a">>, <<"b">> >>))>>,
      <<Entry("a", List(<< <<"a">>, <<"b">> >>)), Entry("b", List(<< <<"a">>, <<"b">> >>))>>,
      <<Entry("b", List(<< <<"a">>, <<"b">>, <<"A">> >>)), Entry("a", Scalar(<<"a", "b">>))>>,
      <<Entry("a", List(<<>>))>>,
      <<Entry("k", List(<< <<"a">>, <<"b">> >>))>>,
      <<Entry("a", List(<< <<"a">>, <<"*">> >>))>>,
      <<Entry("b", Scalar(<<>>))>> }

OnParseError == {"raise", "warn", "ignore"}

OnEmpty == {"raise", "warn", "allow"}

\* the values create_name is given
Values == StringsUpTo({"a", "A", "_"}, MaxValue)

-----------------------------------------------------------------------------
(* The finder: find_paths, find_files, create_*_name *)

NoCall == [op |-> "none"]

InitFinder(finders) ==
    /\ \E ff \in finders : path_pattern = ff[1] /\ file_pattern = ff[2]
    /\ call = NoCall
    /\ ret = NoCall

IdleFinder ==
    /\ path_pattern = <<>> /\ file_pattern = <<>> /\ test_paths = <<>>
    /\ call = NoCall /\ ret = NoCall

\* FileFinder.find_paths and FileFinder.find_files
Find(which, keys, on_parse_error, on_empty) ==
    /\ call = NoCall
    /\ call' = [op |-> "find", which |-> which, keys |-> keys,
                on_parse_error |-> on_parse_error, on_empty |-> on_empty]
    /\ ret' = find(Finder(which), test_paths, keys, on_parse_error, on_empty)
    /\ UNCHANGED <<path_pattern, file_pattern, test_paths, filterVars>>

FindPaths ==
    \E keys \in Queries, on_parse_error \in OnParseError, on_empty \in OnEmpty :
        Find("path", keys, on_parse_error, on_empty)

FindFiles ==
    \E keys \in Queries, on_parse_error \in OnParseError, on_empty \in OnEmpty :
        Find("full", keys, on_parse_error, on_empty)

\* FileFinder.create_path_name and FileFinder.create_full_name
CreateName(which, keys) ==
    /\ call = NoCall
    /\ call' = [op |-> "create_name", which |-> which, keys |-> keys]
    /\ ret' = create_name(Finder(which).pattern, keys, <<>>)
    /\ UNCHANGED <<path_pattern, file_pattern, test_paths, filterVars>>

\* _Finder._parse_paths on the name create_name returned
ParseCreated(on_parse_error) ==
    /\ call.op = "create_name" /\ ret.ok
    /\ call' = [call EXCEPT !.op = "parse_created"]
    /\ ret' = parse_paths(Finder(call.which), <<ret.v>>, 1, on_parse_error)
    /\ UNCHANGED <<path_pattern, file_pattern, test_paths, filterVars>>

-----------------------------------------------------------------------------
(* The construction of a FileFinder, and the calls on what it returns *)

\* the templates a FileFinder is built from: with a reserved name, with an
\* anonymous placeholder, with a path separator in the file pattern, with
\* escaped braces, and well-formed ones
BuildTemplates ==
    FileFinders \cup
    { << <<"{", "k", "e", "y", "s", "}">>, <<>> >>,
      << <<>>, <<"{", "k", "e", "y", "s", "}">> >>,
      << <<"{", "a", "}">>, <<"{", "k", "e", "y", "s", ":", "d", "}">> >>,
      << <<"{", "o", "n", "_", "e", "m", "p", "t", "y", "}">>, <<"{", "a", "}">> >>,
      << <<"{", "a", "}">>,
         <<"{", "o", "n", "_", "p", "a", "r", "s", "e", "_", "e", "r", "r", "o", "r", "}">> >>,
      << <<>>, <<"a", "{", "_", "a", "l", "l", "o", "w", "_", "e", "m", "p", "t", "y", "}">> >>,
      << <<"{", "}">>, <<"{", "a", "}">> >>,
      << <<"{", "a", "}">>, <<"{", "}">> >>,
      << <<"a">>, <<"{", "a", "}", "_", "{", "}">> >>,
      << <<"{", ":", "d", "}">>, <<"{", "a", "}">> >>,
      << <<"{", "_", "a", "}">>, <<"{", "b", "}">> >>,
      << <<"a">>, <<"a", "/", "{", "a", "}">> >>,
      << <<"{", "k", "}">>, <<"{", "a", "}">> >>,
      << <<"{", "{", "}", "}">>, <<"{", "a", "}">> >>,
      << <<"{", "{", "k", "e", "y", "s", "}", "}">>, <<"{", "a", "}">> >> }

\* templates with format hints, one of them inside escaped braces, and
\* templates without
HintTemplates ==
    FileFinders \cup
    { << <<"{", "a", ":", "d", "}">>, <<"{", "b", "}">> >>,
      << <<>>, <<"{", "a", ":", "d", "}", "_", "{", "b", "}">> >>,
      << <<"{", "a", "}">>, <<"{", "b", ":", "2", "d", "}", "{", "a", "}">> >>,
      << <<"{", "b", ":", "l", "}">>, <<"{", "a", ":", "d", "}", "a", "{", "a", ":", "d", "}">> >>,
      << <<"a", ":", "d">>, <<"{", "a", "}", "{", "b", ":", "d", "}">> >>,
      << <<>>, <<"{", "{", "a", "}", "}", "_", "{", "b", ":", "d", "}">> >>,
      << <<>>, <<"{", "{", "a", ":", "d", "}", "}", "_", "{", "b", "}">> >> }

\* FileFinder(path_pattern, file_pattern, test_paths=test_paths)
Construct ==
    /\ call = NoCall
    /\ call' = [op |-> "init"]
    /\ ret' = FileFinder_init(path_pattern, file_pattern)
    /\ UNCHANGED <<path_pattern, file_pattern, test_paths, filterVars>>

\* the constructor returned a FileFinder, and nothing was called on it yet
Built == call.op = "init" /\ ret.ok

\* find_paths and find_files on the FileFinder that was built
FindBuilt(which, keys, on_parse_error, on_empty) ==
    /\ Built
    /\ call' = [op |-> "find", which |-> which, keys |-> keys,
                on_parse_error |-> on_parse_error, on_empty |-> on_empty]
    /\ ret' = find([pattern |-> ret.v[which].pattern, suffix |-> ret.v[which].suffix],
                   test_paths, keys, on_parse_error, on_empty)
    /\ UNCHANGED <<path_pattern, file_pattern, test_paths, filterVars>>

\* create_path_name, create_file_name and create_full_name on the FileFinder
\* that was built
CreateNameBuilt(which, keys) ==
    /\ Built
    /\ call' = [op |-> "create_name", which |-> which, keys |-> keys]
    /\ ret' = create_name(ret.v[which].pattern, keys, <<>>)
    /\ UNCHANGED <<path_pattern, file_pattern, test_paths, filterVars>>

\* FileFinder.find_single_path and FileFinder.find_single_file
FindSingle(which, keys) ==
    /\ call = NoCall
    /\ call' = [op |-> "find_single", which |-> which, keys |-> keys]
    /\ ret' = find_single(Finder(which), test_paths, keys)
    /\ UNCHANGED <<path_pattern, file_pattern, test_paths, filterVars>>

FindSinglePath == \E keys \in Queries : FindSingle("path", keys)

FindSingleFile == \E keys \in Queries : FindSingle("full", keys)

-----------------------------------------------------------------------------
(* _Finder.find step by step: call holds the arguments, the position pc in  *)
(* the code, the combinations product_dict has yet to yield (todo), the     *)
(* local full_pattern and a log of what was done; ret holds all_patterns,   *)
(* all_paths and what _parse_paths has gathered, and in the end the result  *)

NoResult ==
    [ok |-> FALSE, err |-> "", df |-> [columns |-> <<>>, rows |-> <<>>],
     warnings |-> <<>>, all_patterns |-> <<>>, all_paths |-> <<>>]

Logged(ev, what) == Append(call.log, [ev |-> ev, what |-> what])

\* a find that starts its loop whatever the policies are
StartFindUnchecked(which, keys, on_parse_error, on_empty) ==
    LET wrapped == [i \in 1..Len(keys) |-> [k |-> keys[i].k, v |-> wrap_scalar(keys[i].v)]]
    IN /\ call = NoCall
       /\ call' = [op |-> "find_steps", which |-> which, keys |-> keys,
                   on_parse_error |-> on_parse_error, on_empty |-> on_empty,
                   pc |-> "loop", todo |-> product_dict(wrapped),
                   full_pattern |-> <<>>, i |-> 1, log |-> <<>>]
       /\ ret' = NoResult
       /\ UNCHANGED <<path_pattern, file_pattern, test_paths, filterVars>>

\* find up to the loop: the policies are checked, scalars are wrapped
StartFind(which, keys, on_parse_error, on_empty) ==
    LET valid == /\ on_parse_error \in {"raise", "warn", "ignore"}
                 /\ on_empty \in {"raise", "warn", "allow"}
        wrapped == [i \in 1..Len(keys) |-> [k |-> keys[i].k, v |-> wrap_scalar(keys[i].v)]]
    IN /\ call = NoCall
       /\ call' = [op |-> "find_steps", which |-> which, keys |-> keys,
                   on_parse_error |-> on_parse_error, on_empty |-> on_empty,
                   pc |-> IF valid THEN "loop" ELSE "done",
                   todo |-> IF valid THEN product_dict(wrapped) ELSE <<>>,
                   full_pattern |-> <<>>, i |-> 1, log |-> <<>>]
       /\ ret' = IF valid THEN NoResult
                 ELSE IF on_parse_error \notin {"raise", "warn", "ignore"}
                 THEN [NoResult EXCEPT !.err = "unknown on_parse_error"]
                 ELSE [NoResult EXCEPT !.err = "unknown on_empty"]
       /\ UNCHANGED <<path_pattern, file_pattern, test_paths, filterVars>>

\* a pattern made and not handed to the path provider
CreatePatternOnly ==
    /\ call.op = "find_steps" /\ call.pc = "loop" /\ call.todo # <<>>
    /\ LET name == create_name(Finder(call.which).pattern, <<>>,
                       create_condition_dict(Finder(call.which).pattern, Head(call.todo)))
       IN /\ call' = [call EXCEPT !.todo = Tail(@), !.full_pattern = name.v,
                                  !.log = Logged("pattern", name.v)]
          /\ ret' = [ret EXCEPT !.all_patterns = Append(@, name.v)]
    /\ UNCHANGED <<path_pattern, file_pattern, test_paths, filterVars>>

\* the loop body up to create_name: the next combination becomes a pattern
CreatePattern ==
    /\ call.op = "find_steps" /\ call.pc = "loop" /\ call.todo # <<>>
    /\ LET name == create_name(Finder(call.which).pattern, <<>>,
                       create_condition_dict(Finder(call.which).pattern, Head(call.todo)))
       IN IF name.ok
          THEN /\ call' = [call EXCEPT !.pc = "glob", !.full_pattern = name.v,
                                       !.log = Logged("pattern", name.v)]
               /\ ret' = ret
          ELSE /\ call' = [call EXCEPT !.pc = "done"]
               /\ ret' = [NoResult EXCEPT !.err = name.err]
    /\ UNCHANGED <<path_pattern, file_pattern, test_paths, filterVars>>

\* a loop body that sorts all the paths found so far
GlobPatternSorted ==
    /\ call.op = "find_steps" /\ call.pc = "glob"
    /\ call' = [call EXCEPT !.pc = "loop", !.todo = Tail(@),
                            !.log = Logged("glob", call.full_pattern)]
    /\ ret' = [ret EXCEPT
                  !.all_paths = sorted_natural(@ \o glob(test_paths, call.full_pattern)),
                  !.all_patterns = Append(@, call.full_pattern)]
    /\ UNCHANGED <<path_pattern, file_pattern, test_paths, filterVars>>

\* the rest of the loop body: the provider is asked for the pattern, what it
\* finds is sorted and added to all_paths, the pattern to all_patterns
GlobPattern ==
    /\ call.op = "find_steps" /\ call.pc = "glob"
    /\ call' = [call EXCEPT !.pc = "loop", !.todo = Tail(@),
                            !.log = Logged("glob", call.full_pattern)]
    /\ ret' = [ret EXCEPT
                  !.all_paths = @ \o sorted_natural(glob(test_paths, call.full_pattern)),
                  !.all_patterns = Append(@, call.full_pattern)]
    /\ UNCHANGED <<path_pattern, file_pattern, test_paths, filterVars>>

\* after the loop: on_empty decides on an empty all_paths
CheckEmpty ==
    /\ call.op = "find_steps" /\ call.pc = "loop" /\ call.todo = <<>>
    /\ IF ret.all_paths = <<>> /\ call.on_empty = "raise"
       THEN /\ call' = [call EXCEPT !.pc = "done"]
            /\ ret' = [ret EXCEPT !.err = "found no files"]
       ELSE /\ call' = [call EXCEPT !.pc = "parse", !.i = 1]
            /\ ret' = [ret EXCEPT !.warnings =
                          IF ret.all_paths = <<>> /\ call.on_empty = "warn"
                          THEN <<[category |-> "found no files", path |-> <<>>]>>
                          ELSE <<>>]
    /\ UNCHANGED <<path_pattern, file_pattern, test_paths, filterVars>>

\* one pass of the loop of _parse_paths
ParsePath ==
    /\ call.op = "find_steps" /\ call.pc = "parse" /\ call.i <= Len(ret.all_paths)
    /\ LET path == ret.all_paths[call.i]
           parsed == parse(Finder(call.which).pattern, path)
           row == [path |-> path \o Finder(call.which).suffix, named |-> parsed.named]
           warning == [category |-> "could not parse", path |-> path]
       IN IF ~parsed.ok /\ call.on_parse_error = "raise"
          THEN /\ call' = [call EXCEPT !.pc = "done", !.log = Logged("parse", path)]
               /\ ret' = [ret EXCEPT !.err = "could not parse",
                                     !.df = NoResult.df]
          ELSE /\ call' = [call EXCEPT !.i = @ + 1, !.log = Logged("parse", path)]
               /\ ret' = IF parsed.ok THEN [ret EXCEPT !.df.rows = Append(@, row)]
                         ELSE IF call.on_parse_error = "warn"
                         THEN [ret EXCEPT !.warnings = Append(@, warning)]
                         ELSE ret
    /\ UNCHANGED <<path_pattern, file_pattern, test_paths, filterVars>>

\* the DataFrame is built, _assert_unique runs, the FileContainer is returned
Assemble ==
    /\ call.op = "find_steps" /\ call.pc = "parse" /\ call.i > Len(ret.all_paths)
    /\ call' = [call EXCEPT !.pc = "done", !.log = Logged("assemble", <<>>)]
    /\ ret' = IF duplicated(ret.df.rows) # {}
              THEN [ret EXCEPT !.err = "non-unique metadata", !.df = NoResult.df]
              ELSE [ret EXCEPT !.ok = TRUE,
                               !.df.columns = find_keys(Finder(call.which).pattern)]
    /\ UNCHANGED <<path_pattern, file_pattern, test_paths, filterVars>>

-----------------------------------------------------------------------------
(* The tables handed to priority_filter and its arguments *)

Columns == <<"model", "exp", "res">>

RowValues ==
    [model : {"a"}, exp : {"1", "2"}, res : {"d", "h", "z"}]
        \cup [model : {"b"}, exp : {"1"}, res : {"d", "h", "z"}]

\* a FileContainer's frame: row number i has the path p<i> as its index label
Frame(values) ==
    [columns |-> Columns,
     rows |-> [i \in 1..Len(values) |->
                  [path |-> <<"p">> \o range_label(i), named |-> values[i]]]]

Tables == {Frame(values) : values \in SeqsUpTo(RowValues, MaxRows)}

Orders == { <<"h", "d">>, <<"d", "h">>, <<"h">> }

OnMissing == {"raise", "warn", "ignore"}

GroupBys == { [none |-> TRUE], [none |-> FALSE, by |-> <<"model">>] }

InitFilter ==
    /\ table \in Tables
    /\ fcall = NoCall
    /\ fret = NoCall

IdleFilter ==
    /\ table = Frame(<<>>)
    /\ fcall = NoCall
    /\ fret = NoCall

\* priority_filter(table, column, order, on_missing=..., groupby=...)
PriorityFilter ==
    \E order \in Orders, on_missing \in OnMissing, groupby \in GroupBys :
        /\ fcall = NoCall
        /\ fcall' = [op |-> "priority_filter", column |-> "res", order |-> order,
                     on_missing |-> on_missing, groupby |-> groupby, times |-> 1,
                     nrows |-> Len(table.rows)]
        /\ fret' = priority_filter(table, "res", order, on_missing, groupby)
        /\ UNCHANGED <<table, finderVars>>

\* priority_filter with the same arguments on the table it returned
FilterAgain ==
    /\ fcall.op = "priority_filter" /\ fcall.times = 1 /\ fret.ok
    /\ fcall' = [fcall EXCEPT !.times = 2]
    /\ table' = fret.df
    /\ fret' = priority_filter(fret.df, fcall.column, fcall.order, fcall.on_missing,
                               fcall.groupby)
    /\ UNCHANGED finderVars

\* the queries of FileContainer.search, as those of find
Cond(k, v) == [k |-> k, v |-> v]

SearchQueries ==
    { <<>>,
      <<Cond("model", Scalar("a"))>>,
      <<Cond("model", Scalar("c"))>>,
      <<Cond("model", List(<<"a", "b">>))>>,
      <<Cond("res", List(<<"d", "h">>))>>,
      <<Cond("res", List(<<>>))>>,
      <<Cond("model", Scalar("a")), Cond("res", List(<<"d", "h">>))>>,
      <<Cond("exp", Scalar("1")), Cond("res", Scalar("z"))>>,
      <<Cond("k", Scalar("a"))>>,
      <<Cond("model", Scalar("a")), Cond("k", List(<<"a", "b">>))>> }

\* FileContainer(table).search(**query)
Search ==
    \E query \in SearchQueries :
        /\ fcall = NoCall
        /\ fcall' = [op |-> "search", query |-> query]
        /\ fret' = search(table, query)
        /\ UNCHANGED <<table, finderVars>>

\* the arguments of priority_filter, well and badly chosen: a column the
\* table lacks, a column that is grouped by, policies that do not exist
FilterColumns == {"res", "grid"}

AnyOnMissing == OnMissing \cup {"error", "skip"}

AnyGroupBys == GroupBys \cup { [none |-> FALSE, by |-> <<"model", "res">>] }

\* the tables of at most two rows
SmallTables == {t \in Tables : Len(t.rows) <= 2}

\* priority_filter(table, column, order, on_missing=..., groupby=...) with any
\* of these arguments
PriorityFilterAny ==
    \E column \in FilterColumns, order \in Orders, on_missing \in AnyOnMissing,
       groupby \in AnyGroupBys :
        /\ fcall = NoCall
        /\ fcall' = [op |-> "priority_filter", column |-> column, order |-> order,
                     on_missing |-> on_missing, groupby |-> groupby, times |-> 1,
                     nrows |-> Len(table.rows)]
        /\ fret' = priority_filter(table, column, order, on_missing, groupby)
        /\ UNCHANGED <<table, finderVars>>

\* A table derived from the table: fcall holds how it was derived, the table
\* as it was before (parent), and the rows of the table whose storage the
\* derived rows share (shares: derived row number i is row shares[i] of the
\* table; <<>> when the derived table has rows of its own)

\* FileContainer(table).search(**query): self.df[sel] is a new frame
DeriveSearch ==
    \E query \in SearchQueries :
        /\ fcall = NoCall
        /\ fcall' = [op |-> "derive", how |-> "search", parent |-> table,
                     shares |-> <<>>, changed |-> FALSE]
        /\ fret' = search(table, query)
        /\ UNCHANGED <<table, finderVars>>

\* FileContainer(table)[start:stop]: self.df.iloc[key] is a view of the rows
\* of self.df or a copy of them, as pandas decides
DeriveSlice ==
    \E start \in 0..1, stop \in 1..2, view \in BOOLEAN :
        /\ fcall = NoCall
        /\ fcall' = [op |-> "derive", how |-> "slice", parent |-> table,
                     shares |-> IF view
                                THEN [i \in 1..Cardinality(slice_indices(start, stop,
                                                                        Len(table.rows)))
                                         |-> start + i]
                                ELSE <<>>,
                     changed |-> FALSE]
        /\ fret' = getitem_slice(table, start, stop)
        /\ UNCHANGED <<table, finderVars>>

\* priority_filter(table, "res", order, on_missing=..., groupby=...)
DeriveFilter ==
    \E order \in Orders, on_missing \in OnMissing, groupby \in GroupBys :
        /\ fcall = NoCall
        /\ fcall' = [op |-> "derive", how |-> "priority_filter", parent |-> table,
                     shares |-> IF priority_filter_returns_obj(table, "res", order,
                                                               on_missing, groupby)
                                THEN [i \in 1..Len(table.rows) |-> i]
                                ELSE <<>>,
                     changed |-> FALSE]
        /\ fret' = priority_filter(table, "res", order, on_missing, groupby)
        /\ UNCHANGED <<table, finderVars>>

\* derived.df.iloc[i, column] = value on the table that was returned
SetValue ==
    \E i \in 1..MaxRows, value \in {"x"} :
        /\ fcall.op = "derive" /\ ~fcall.changed /\ fret.ok
        /\ i <= Len(fret.df.rows)
        /\ fcall' = [fcall EXCEPT !.changed = TRUE]
        /\ fret' = [fret EXCEPT !.df.rows[i].named.res = value]
        /\ table' = IF fcall.shares = <<>> THEN table
                    ELSE [table EXCEPT !.rows[fcall.shares[i]].named.res = value]
        /\ UNCHANGED finderVars

-----------------------------------------------------------------------------
(* sorted(paths, key=natural_keys) on its own *)

\* the strings sorted: letters and digits
SortStrings == StringsUpTo({"a", "0", "1", "2"}, MaxName)

\* the lists sorted: any two strings, and the list of the docstring with one more
SortLists ==
    {<<s, t>> : s, t \in SortStrings}
        \cup { << <<"a", "1", "0">>, <<"a", "2">>, <<"a", "1">> >>,
               << <<"a", "2">>, <<"a", "1", "0">>, <<"a", "1">> >> }

InitSort ==
    /\ path_pattern = <<>> /\ file_pattern = <<>>
    /\ test_paths \in SortLists
    /\ call = NoCall /\ ret = NoCall
    /\ IdleFilter

\* sorted(test_paths, key=natural_keys)
Sort ==
    /\ call = NoCall
    /\ call' = [op |-> "sorted"]
    /\ ret' = Ok(sorted_natural(test_paths))
    /\ UNCHANGED <<path_pattern, file_pattern, test_paths, filterVars>>

NextSort == Sort

SpecSort == InitSort /\ [][NextSort]_vars

-----------------------------------------------------------------------------
(* Specifications *)

\* find_paths and find_files of a FileFinder over test_paths
Init ==
    /\ InitFinder(FileFinders)
    /\ test_paths \in SeqsUpTo(PathPool, MaxPaths)
    /\ IdleFilter

Next == FindPaths \/ FindFiles

Spec == Init /\ [][Next]_vars

\* the paths the provider may hold in the calls followed step by step
StepPaths ==
    { <<"a", "/", "a">>, <<"a", "/", "A">>, <<"a", "/", "2">>, <<"a", "/", "1", "0">> }

\* their queries: those of the model and one whose patterns find numbered paths
StepQueries ==
    Queries \cup { <<Entry("b", List(<< <<"1", "0">>, <<"2">>, <<"a">> >>))>> }

InitSteps ==
    /\ InitFinder(FileFinders)
    /\ test_paths \in SeqsUpTo(StepPaths, MaxPaths)
    /\ IdleFilter

\* on_parse_error and on_empty of the calls followed step by step
StepPolicies == { <<"raise", "raise">>, <<"warn", "warn">>, <<"ignore", "allow">> }

\* find_paths and find_files step by step
NextSteps ==
    \/ \E which \in {"path", "full"}, keys \in StepQueries, policies \in StepPolicies :
           StartFind(which, keys, policies[1], policies[2])
    \/ CreatePattern
    \/ GlobPattern
    \/ CheckEmpty
    \/ ParsePath
    \/ Assemble

SpecSteps == InitSteps /\ [][NextSteps]_vars

\* on_parse_error and on_empty, also such as do not exist
AnyPolicies ==
    { <<"warn", "warn">>, <<"foo", "raise">>, <<"ignore", "foo">>, <<"foo", "foo">> }

\* find_paths and find_files step by step, with any of these policies
NextPolicy ==
    \/ \E which \in {"path", "full"}, keys \in StepQueries, policies \in AnyPolicies :
          StartFind(which, keys, policies[1], policies[2])
    \/ CreatePattern
    \/ GlobPattern
    \/ CheckEmpty
    \/ ParsePath
    \/ Assemble

SpecPolicy == InitSteps /\ [][NextPolicy]_vars

\* find_single_path and find_single_file
NextSingle == FindSinglePath \/ FindSingleFile

SpecSingle == Init /\ [][NextSingle]_vars

\* find_paths and find_files on templates with and without fields
InitPlain ==
    /\ InitFinder(PlainFinders)
    /\ test_paths \in SeqsUpTo(PathPool, MaxPaths)
    /\ IdleFilter

SpecPlain == InitPlain /\ [][Next]_vars

\* create_name and the parsing of the created name
InitName ==
    /\ InitFinder(NameFinders)
    /\ test_paths = <<>>
    /\ IdleFilter

NextName ==
    \/ \E which \in {"path", "full"} :
          \E keys \in UNION {[K -> Values] :
                                K \in SUBSET Range(find_keys(Finder(which).pattern))} :
              CreateName(which, keys)
    \/ \E on_parse_error \in OnParseError : ParseCreated(on_parse_error)

SpecName == InitName /\ [][NextName]_vars

\* the construction of a FileFinder and one call on it
InitBuild ==
    /\ InitFinder(BuildTemplates)
    /\ test_paths \in {<<>>, << <<"a", "/", "a">> >>, << <<"a", "/", "a">>, <<"a", "/", "b">> >>}
    /\ IdleFilter

NextBuild ==
    \/ Construct
    \/ \E which \in {"path", "full"}, keys \in Queries, policy \in StepPolicies :
          FindBuilt(which, keys, policy[1], policy[2])
    \/ /\ Built
       /\ \E which \in {"file", "path", "full"} :
             \E keys \in UNION {[K -> Values] : K \in SUBSET Range(ret.v[which].keys)} :
                 CreateNameBuilt(which, keys)

SpecBuild == InitBuild /\ [][NextBuild]_vars

\* the construction of a FileFinder from a template with format hints, and
\* the names created from it
InitHint ==
    /\ InitFinder(HintTemplates)
    /\ test_paths = <<>>
    /\ IdleFilter

NextHint ==
    \/ Construct
    \/ /\ Built
       /\ \E which \in {"file", "path", "full"} :
             \E keys \in UNION {[K -> Values] : K \in SUBSET Range(ret.v[which].keys)} :
                 CreateNameBuilt(which, keys)

SpecHint == InitHint /\ [][NextHint]_vars

\* priority_filter on a table, once and again
InitTable == IdleFinder /\ InitFilter

NextFilter == PriorityFilter \/ FilterAgain

SpecFilter == InitTable /\ [][NextFilter]_vars

\* priority_filter with well and badly chosen arguments
InitConfig == IdleFinder /\ InitFilter /\ table \in SmallTables

NextConfig == PriorityFilterAny

SpecConfig == InitConfig /\ [][NextConfig]_vars

\* a table is derived from the table and then changed
InitAlias == IdleFinder /\ InitFilter /\ table \in SmallTables

NextAlias == DeriveSearch \/ DeriveSlice \/ DeriveFilter \/ SetValue

SpecAlias == InitAlias /\ [][NextAlias]_vars

-----------------------------------------------------------------------------
(* What the claims speak of *)

\* the finder and the template of the last call
TheFinder == Finder(call.which)

ThePattern == TheFinder.pattern

\* the field names of the template, one per placeholder
Placeholders(pattern) ==
    LET toks == tokens(pattern, 1)
    IN [i \in {j \in 1..Len(toks) : toks[j].kind = "fld"} |-> toks[i].name]

FieldNames(pattern) == {Placeholders(pattern)[i] : i \in DOMAIN Placeholders(pattern)}

HasRepeatedField(pattern) ==
    \E i, j \in DOMAIN Placeholders(pattern) :
        i # j /\ Placeholders(pattern)[i] = Placeholders(pattern)[j]

\* the characters of the literal text of the template
LiteralChars(pattern) ==
    LET toks == tokens(pattern, 1)
    IN {toks[i].name[1] : i \in {j \in 1..Len(toks) : toks[j].kind = "lit"}}

\* the template with the values written in the place of its placeholders
RECURSIVE Fill(_, _)
Fill(toks, values) ==
    IF toks = <<>> THEN <<>>
    ELSE (IF Head(toks).kind = "lit" THEN Head(toks).name ELSE values[Head(toks).name])
         \o Fill(Tail(toks), values)

Substrings(string) ==
    {SubSeq(string, i, j) : i \in 1..Len(string), j \in 1..Len(string)} \ {<<>>}

\* the path is the template with one value per field name, the same at every
\* occurrence of the name
Consistent(pattern, path) ==
    \E values \in [FieldNames(pattern) -> Substrings(path)] :
        Fill(tokens(pattern, 1), values) = path

\* the find call ran and its policies were accepted
Found == call.op = "find" /\ ret.err \notin {"unknown on_parse_error", "unknown on_empty"}

\* the path is a row of the table find returned
IsRow(path) ==
    \E i \in 1..Len(ret.df.rows) : ret.df.rows[i].path = path \o TheFinder.suffix

\* C1: for a template with a repeated field, a collected path parses, and is
\* a row of the table find returns, exactly if every occurrence of a field
\* holds the same substring
C1_RepeatedFieldConsistency ==
    (Found /\ HasRepeatedField(ThePattern)) =>
        \A i \in 1..Len(ret.all_paths) :
            LET path == ret.all_paths[i]
            IN /\ parse(ThePattern, path).ok <=> Consistent(ThePattern, path)
               /\ ret.ok => (IsRow(path) <=> Consistent(ThePattern, path))

\* C1: a path that is the template read without regard to letter case is
\* collected and parsed although two occurrences of a field differ
C1_Witness ==
    /\ Found /\ ret.ok /\ HasRepeatedField(ThePattern)
    /\ \E i \in 1..Len(ret.all_paths) :
           IsRow(ret.all_paths[i]) /\ ~Consistent(ThePattern, ret.all_paths[i])

-----------------------------------------------------------------------------
(* create_name and back *)

\* create_name was given a value for every field and the created name parsed
Parsed == call.op = "parse_created"

NoCollision(pattern, keys) ==
    \A k \in DOMAIN keys : Range(keys[k]) \cap LiteralChars(pattern) = {}

RoundTrip == ret.ok /\ Len(ret.rows) = 1 /\ ret.rows[1].named = call.keys

Separated(pattern) ==
    LET toks == tokens(pattern, 1)
    IN \A i \in 1..(Len(toks) - 1) : ~(toks[i].kind = "fld" /\ toks[i + 1].kind = "fld")

NoCollisionAnyCase(pattern, keys) ==
    \A k \in DOMAIN keys :
        {lower(c) : c \in Range(keys[k])} \cap {lower(c) : c \in LiteralChars(pattern)} = {}

-----------------------------------------------------------------------------
(* The patterns of a query *)

RECURSIVE Product(_, _)
Product(keys, i) ==
    IF i > Len(keys) THEN 1
    ELSE (IF keys[i].v.islist THEN Len(keys[i].v.val) ELSE 1) * Product(keys, i + 1)

\* the template with a wildcard for every placeholder
RECURSIVE Wildcards(_)
Wildcards(toks) ==
    IF toks = <<>> THEN <<>>
    ELSE (IF Head(toks).kind = "lit" THEN Head(toks).name ELSE <<"*">>)
         \o Wildcards(Tail(toks))

\* C3: a query yields as many patterns as the product of the lengths of its
\* candidate lists, a scalar counting as a list of one; the empty query
\* yields the one pattern with a wildcard for every field
C3_ExpansionCardinality ==
    Found =>
        /\ Len(ret.all_patterns) = Product(call.keys, 1)
        /\ call.keys = <<>> => ret.all_patterns = <<Wildcards(tokens(ThePattern, 1))>>

C3_Witness ==
    /\ Found /\ Len(call.keys) = 2
    /\ \A i \in 1..2 : call.keys[i].v.islist /\ Len(call.keys[i].v.val) = 2
    /\ Cardinality(Range(ret.all_patterns)) = 4

-----------------------------------------------------------------------------
(* The rows of the table find returns *)

\* find got as far as to assemble the table
Assembled == Found /\ (ret.ok \/ ret.err = "non-unique metadata")

\* two paths find collected parse to the same values
SameValues(i, j) ==
    LET p == parse(ThePattern, ret.all_paths[i])
        q == parse(ThePattern, ret.all_paths[j])
    IN p.ok /\ q.ok /\ p.named = q.named

-----------------------------------------------------------------------------
(* priority_filter: the partitions of its table *)

\* priority_filter was applied to table
Filtered == fcall.op = "priority_filter" /\ fcall.times = 1

\* the columns the rows are grouped by
GroupColumns ==
    IF fcall.groupby.none THEN Range(Columns) \ {fcall.column}
    ELSE Range(fcall.groupby.by)

PartitionKey(row) == [c \in GroupColumns |-> row.named[c]]

PartitionKeys(rows) == {PartitionKey(rows[i]) : i \in 1..Len(rows)}

\* the positions of the rows of a partition
Partition(rows, pkey) == {i \in 1..Len(rows) : PartitionKey(rows[i]) = pkey}

\* some partition of table has more than one row
HasSeveral == \E pkey \in PartitionKeys(table.rows) :
                  Cardinality(Partition(table.rows, pkey)) > 1

\* the values of the priority column in a partition of table
Present(pkey) == {table.rows[i].named[fcall.column] : i \in Partition(table.rows, pkey)}

HasBest(pkey) == Present(pkey) \cap Range(fcall.order) # {}

\* the first element of the order that is present in the partition
BestValue(pkey) ==
    fcall.order[CHOOSE n \in 1..Len(fcall.order) :
                    /\ fcall.order[n] \in Present(pkey)
                    /\ \A m \in 1..(n - 1) : fcall.order[m] \notin Present(pkey)]

\* the positions of the rows of the partition that carry its best value
BestRows(pkey) ==
    {i \in Partition(table.rows, pkey) : table.rows[i].named[fcall.column] = BestValue(pkey)}

\* C5: of a partition with several rows the result holds exactly the row
\* whose value comes first in the order among the values of the partition,
\* and the result has at most one row per partition
C5_PrioritySelection ==
    (Filtered /\ fret.ok) =>
        \A pkey \in PartitionKeys(table.rows) :
            /\ Cardinality(Partition(fret.df.rows, pkey)) <= 1
            /\ (Cardinality(Partition(table.rows, pkey)) > 1 /\ HasBest(pkey)) =>
                   \E i \in Partition(fret.df.rows, pkey) :
                       \E j \in BestRows(pkey) : fret.df.rows[i].named = table.rows[j].named

\* a partition holding both values of the order keeps the one that comes first
C5_Witness ==
    /\ Filtered /\ fret.ok /\ Len(fcall.order) = 2
    /\ \E pkey \in PartitionKeys(table.rows) :
           /\ Range(fcall.order) \subseteq Present(pkey)
           /\ \E i \in Partition(fret.df.rows, pkey) :
                  fret.df.rows[i].named[fcall.column] = fcall.order[1]

\* the partition has one row and the result holds the values of that row
SingletonKept(pkey) ==
    \E i \in Partition(fret.df.rows, pkey) :
        \E j \in Partition(table.rows, pkey) : fret.df.rows[i].named = table.rows[j].named

Singletons == {pkey \in PartitionKeys(table.rows) :
                  Cardinality(Partition(table.rows, pkey)) = 1}

\* C6 as stated: a partition of one row is in the result, whatever its value
C6_SingletonsKept ==
    (Filtered /\ fret.ok) => \A pkey \in Singletons : SingletonKept(pkey)

\* C6: a partition of one row is in the result if its value occurs in the
\* order or no partition of the table has several rows; otherwise it is a
\* partition without a priority match: an error under "raise", not in the
\* result under "warn" and "ignore"
C6_SingletonsResolved ==
    Filtered =>
        \A pkey \in Singletons :
            IF HasBest(pkey) \/ ~HasSeveral
            THEN fret.ok => SingletonKept(pkey)
            ELSE /\ fcall.on_missing = "raise" => ~fret.ok
                 /\ fret.ok => Partition(fret.df.rows, pkey) = {}

C6_Witness ==
    /\ Filtered /\ fret.ok /\ HasSeveral
    /\ \E pkey \in Singletons : HasBest(pkey) /\ SingletonKept(pkey)

\* C7: every row of the result is a row of the table, path and values
C7_RowsAreInputRows ==
    (Filtered /\ fret.ok) =>
        \A i \in 1..Len(fret.df.rows) :
            \E j \in 1..Len(table.rows) : fret.df.rows[i] = table.rows[j]

\* C8: priority_filter applied with the same arguments to the table it
\* returned succeeds and returns that table
C8_Idempotence ==
    (fcall.op = "priority_filter" /\ fcall.times = 2) => (fret.ok /\ fret.df = table)

\* the first application removed rows and the second returns what the first did
C8_Witness ==
    /\ fcall.op = "priority_filter" /\ fcall.times = 2
    /\ fret.ok /\ fret.df = table /\ Len(table.rows) < fcall.nrows

\* the first value of the order present in the partition is carried by
\* several of its rows
Ambiguous(pkey) == HasBest(pkey) /\ Cardinality(BestRows(pkey)) > 1

\* C9: if in some partition the first value of the order that is present is
\* carried by several rows, priority_filter fails, whatever on_missing is
C9_AmbiguousIsFatal ==
    (Filtered /\ \E pkey \in PartitionKeys(table.rows) : Ambiguous(pkey)) => ~fret.ok

C9_Witness ==
    /\ Filtered /\ fcall.on_missing = "ignore"
    /\ \E pkey \in PartitionKeys(table.rows) : Ambiguous(pkey)
    /\ ~fret.ok /\ fret.err = "found more than one"

\* C10: when a partition to resolve has none of the values of the order,
\* "raise" fails; "warn" warns, "ignore" does not, and both return a table
\* without the rows of that partition
C10_MissingFollowsPolicy ==
    (/\ Filtered /\ HasSeveral
     /\ \E pkey \in PartitionKeys(table.rows) : ~HasBest(pkey)
     /\ \A pkey \in PartitionKeys(table.rows) : ~Ambiguous(pkey)) =>
        /\ fcall.on_missing = "raise" => ~fret.ok
        /\ fcall.on_missing \in {"warn", "ignore"} =>
               /\ fret.ok
               /\ \A pkey \in PartitionKeys(table.rows) :
                      ~HasBest(pkey) => Partition(fret.df.rows, pkey) = {}
               /\ fcall.on_missing = "warn" <=> fret.warnings # <<>>

-----------------------------------------------------------------------------
(* The policies of find *)

\* the field names of a template in the order of their first occurrence
RECURSIVE FirstOccurrences(_, _)
FirstOccurrences(toks, seen) ==
    IF toks = <<>> THEN <<>>
    ELSE IF Head(toks).kind = "fld" /\ Head(toks).name \notin seen
    THEN <<Head(toks).name>> \o FirstOccurrences(Tail(toks), seen \cup {Head(toks).name})
    ELSE FirstOccurrences(Tail(toks), seen)

FieldColumns(pattern) == FirstOccurrences(tokens(pattern, 1), {})

EmptyTable == [columns |-> FieldColumns(ThePattern), rows |-> <<>>]

Unparsable == {i \in 1..Len(ret.all_paths) : ~Consistent(ThePattern, ret.all_paths[i])}

\* the collected paths but those at the positions left out, in their order
RECURSIVE Without(_, _, _)
Without(paths, out, i) ==
    IF i > Len(paths) THEN <<>>
    ELSE (IF i \in out THEN <<>> ELSE <<paths[i]>>) \o Without(paths, out, i + 1)

\* the row holds a value for every field, and they make up its path
CompleteRow(row, path) ==
    /\ row.path = path \o TheFinder.suffix
    /\ DOMAIN row.named = FieldNames(ThePattern)
    /\ Fill(tokens(ThePattern, 1), row.named) = path

\* C12: a collected path that does not match the template fails find under
\* on_parse_error "raise"; under "warn" (one warning per such path) and
\* "ignore" (no warning) the table holds exactly the matching paths, each
\* with all its fields, in the order they were collected
C12_ParseErrorPolicy ==
    (Found /\ ret.all_paths # <<>>) =>
        LET good == Without(ret.all_paths, Unparsable, 1)
        IN /\ (call.on_parse_error = "raise" /\ Unparsable # {}) =>
                  ~ret.ok /\ ret.err = "could not parse"
           /\ ret.ok =>
                  /\ Len(ret.df.rows) = Len(good)
                  /\ \A i \in 1..Len(good) : CompleteRow(ret.df.rows[i], good[i])
                  /\ ret.warnings =
                         IF call.on_parse_error = "warn"
                         THEN [i \in 1..Cardinality(Unparsable) |->
                                  [category |-> "could not parse",
                                   path |-> Without(ret.all_paths,
                                                    (1..Len(ret.all_paths)) \ Unparsable,
                                                    1)[i]]]
                         ELSE <<>>

-----------------------------------------------------------------------------
(* FileContainer.search *)

\* search on a table
NextSearch == Search

SpecSearch == InitTable /\ [][NextSearch]_vars

Searched == fcall.op = "search"

\* the values a condition of the query admits
Candidates(entry) == IF entry.v.islist THEN Range(entry.v.val) ELSE {entry.v.val}

\* the row meets every condition of the query
Satisfies(row) ==
    \A i \in 1..Len(fcall.query) : row.named[fcall.query[i].k] \in Candidates(fcall.query[i])

KnownFields == \A i \in 1..Len(fcall.query) : fcall.query[i].k \in Range(table.columns)

\* C13: for a query that is not empty, search returns exactly the rows whose
\* value of every field asked for is one of the candidates of that field, in
\* the order of the table
C13_SearchSemantics ==
    (Searched /\ fcall.query # <<>> /\ KnownFields) =>
        /\ fret.ok
        /\ fret.df.columns = table.columns
        /\ fret.df.rows =
               Without(table.rows,
                       {i \in 1..Len(table.rows) : ~Satisfies(table.rows[i])}, 1)

\* two conditions, one of them with two candidates, select some rows of the
\* table and leave out rows that meet one condition only
C13_Witness ==
    /\ Searched /\ Len(fcall.query) = 2 /\ KnownFields /\ fret.ok
    /\ \E i \in 1..2 : Cardinality(Candidates(fcall.query[i])) = 2
    /\ Len(fret.df.rows) = 2
    /\ \E i \in 1..Len(table.rows) :
           /\ ~Satisfies(table.rows[i])
           /\ table.rows[i].named[fcall.query[1].k] \in Candidates(fcall.query[1])

\* C14: search without a query returns no row and the columns of the table;
\* a value no row has gives no row and no error; a field that is not a
\* column is an error
C14_WildcardAsymmetry ==
    Searched =>
        /\ fcall.query = <<>> =>
               fret.ok /\ fret.df = [columns |-> table.columns, rows |-> <<>>]
        /\ (KnownFields /\ \A i \in 1..Len(table.rows) : ~Satisfies(table.rows[i])) =>
               fret.ok /\ fret.df.rows = <<>>
        /\ ~KnownFields => ~fret.ok

C14_Witness ==
    /\ Searched /\ fcall.query = <<>> /\ Len(table.rows) >= 2
    /\ fret.ok /\ fret.df.rows = <<>> /\ fret.df.columns = table.columns

-----------------------------------------------------------------------------
(* The order of the steps of find *)

Stepping == call.op = "find_steps"

\* in the log, no event of the kind later comes before one of the kind earlier
Precedes(earlier, later) ==
    \A i, j \in 1..Len(call.log) :
        (call.log[i].ev = later /\ call.log[j].ev = earlier) => j < i

\* C15 as stated: all patterns are made before the provider is asked for the
\* first time, all provider calls are over before the first path is parsed,
\* all parsing before the table is assembled
C15_ExpansionBeforeCollection ==
    Stepping =>
        /\ Precedes("pattern", "glob")
        /\ Precedes("glob", "parse")
        /\ Precedes("parse", "assemble")

\* C15: every pattern is handed to the provider as soon as it is made and
\* before the next pattern is made; all provider calls are over before the
\* first path is parsed, all parsing before the table is assembled
C15_PatternThenProvider ==
    Stepping =>
        /\ \A i \in 1..Len(call.log) :
               /\ (call.log[i].ev = "pattern" /\ i < Len(call.log)) =>
                      call.log[i + 1] = [ev |-> "glob", what |-> call.log[i].what]
               /\ call.log[i].ev = "glob" =>
                      i > 1 /\ call.log[i - 1] = [ev |-> "pattern", what |-> call.log[i].what]
        /\ Precedes("glob", "parse")
        /\ Precedes("parse", "assemble")

\* a call with several patterns and several paths has come to its end
C15_Witness ==
    /\ Stepping /\ call.pc = "done" /\ ret.ok
    /\ Len(ret.all_patterns) >= 2 /\ Len(ret.df.rows) >= 2
    /\ call.log[Len(call.log)].ev = "assemble"

\* the candidates of an entry of the query
CandidateList(entry) == IF entry.v.islist THEN entry.v.val ELSE <<entry.v.val>>

\* the number of combinations of the entries after entry number i
RECURSIVE CombinationsAfter(_, _)
CombinationsAfter(keys, i) ==
    IF i >= Len(keys) THEN 1
    ELSE Len(CandidateList(keys[i + 1])) * CombinationsAfter(keys, i + 1)

\* the candidate of entry number i in combination number m (from 0) of the
\* cartesian product, the last entry varying fastest
CandidateIn(keys, i, m) ==
    CandidateList(keys[i])[((m \div CombinationsAfter(keys, i))
                                % Len(CandidateList(keys[i]))) + 1]

\* the pattern of combination number m: the candidate for a field of the
\* query, a wildcard for any other field
PatternOf(keys, m) ==
    Fill(tokens(ThePattern, 1),
         [f \in FieldNames(ThePattern) |->
             IF \E i \in 1..Len(keys) : keys[i].k = f
             THEN CandidateIn(keys, CHOOSE i \in 1..Len(keys) : keys[i].k = f, m)
             ELSE <<"*">>])

ExpectedPatterns(keys) == [n \in 1..Product(keys, 1) |-> PatternOf(keys, n - 1)]

\* the patterns handed to the provider so far, in the order of the calls
Submitted ==
    LET globs == SelectSeq(call.log, LAMBDA e : e.ev = "glob")
    IN [i \in 1..Len(globs) |-> globs[i].what]

\* what the provider finds for each pattern, each in natural order, one
\* pattern after the other
ExpectedPaths(keys) ==
    concat([n \in 1..Product(keys, 1) |->
               sorted_natural(glob(test_paths, PatternOf(keys, n - 1)))])

\* C16: the patterns are handed to the provider once each, in the order of
\* the cartesian product with the last field of the query varying fastest;
\* the rows of the table are the matches of the first pattern in natural
\* order, then those of the second, and so on
C16_ProviderCallOrder ==
    Stepping =>
        /\ Len(Submitted) <= Product(call.keys, 1)
        /\ \A n \in 1..Len(Submitted) : Submitted[n] = ExpectedPatterns(call.keys)[n]
        /\ call.pc \in {"parse", "done"} => Submitted = ExpectedPatterns(call.keys)
        /\ (call.pc = "done" /\ ret.ok) =>
               LET expected == ExpectedPaths(call.keys)
                   kept == Without(expected,
                                   {i \in 1..Len(expected) :
                                        ~parse(ThePattern, expected[i]).ok}, 1)
               IN [i \in 1..Len(ret.df.rows) |-> ret.df.rows[i].path]
                      = [i \in 1..Len(kept) |-> kept[i] \o TheFinder.suffix]

\* three patterns were handed over; the rows are in the order of the patterns
\* and not in natural order
C16_Witness ==
    /\ Stepping /\ call.pc = "done" /\ ret.ok
    /\ Len(Submitted) = 3
    /\ [i \in 1..Len(ret.df.rows) |-> ret.df.rows[i].path]
           = << <<"a", "/", "1", "0">>, <<"a", "/", "2">> >>

-----------------------------------------------------------------------------
(* Natural sort *)

Sorted == call.op = "sorted"

\* the number a run of digits stands for
RECURSIVE NumberOf(_)
NumberOf(digits) ==
    IF digits = <<>> THEN 0
    ELSE 10 * NumberOf(SubSeq(digits, 1, Len(digits) - 1)) + digit(digits[Len(digits)])

IsNumber(s) == s # <<>> /\ Range(s) \subseteq Digits

\* x and y are the same but for one whole run of digits, and that of x
\* stands for the smaller number
SmallerNumber(x, y) ==
    \E i \in 0..Len(x) : \E j \in (i + 1)..Len(x), k \in (i + 1)..Len(y) :
        /\ SubSeq(x, 1, i) = SubSeq(y, 1, i)
        /\ SubSeq(x, j + 1, Len(x)) = SubSeq(y, k + 1, Len(y))
        /\ IsNumber(SubSeq(x, i + 1, j)) /\ IsNumber(SubSeq(y, i + 1, k))
        /\ i > 0 => x[i] \notin Digits
        /\ j < Len(x) => x[j + 1] \notin Digits
        /\ NumberOf(SubSeq(x, i + 1, j)) < NumberOf(SubSeq(y, i + 1, k))

\* C17: sorting with the key natural_keys keeps the strings, compares runs of
\* digits by the number they stand for, so that a10, a2, a1 becomes a1, a2,
\* a10, and puts the smaller number first when two strings differ in one
\* number only
C17_NaturalSort ==
    Sorted =>
        /\ Len(ret.v) = Len(test_paths)
        /\ \A s \in Range(test_paths) :
               Cardinality({i \in 1..Len(ret.v) : ret.v[i] = s})
                   = Cardinality({i \in 1..Len(test_paths) : test_paths[i] = s})
        /\ \A i, j \in 1..Len(ret.v) : SmallerNumber(ret.v[j], ret.v[i]) => j < i
        /\ Range(test_paths) = { <<"a", "1", "0">>, <<"a", "2">>, <<"a", "1">> } =>
               ret.v = << <<"a", "1">>, <<"a", "2">>, <<"a", "1", "0">> >>

C17_Witness ==
    /\ Sorted
    /\ test_paths = << <<"a", "1", "0">>, <<"a", "2">>, <<"a", "1">> >>
    /\ ret.v = << <<"a", "1">>, <<"a", "2">>, <<"a", "1", "0">> >>

-----------------------------------------------------------------------------
(* Scalars and lists in a query *)

\* the number of combinations of the lists of a query
RECURSIVE ListProduct(_, _)
ListProduct(keys, i) ==
    IF i > Len(keys) THEN 1
    ELSE IF keys[i].v.islist THEN Len(keys[i].v.val) * ListProduct(keys, i + 1)
    ELSE ListProduct(keys, i + 1)

\* what the patterns of a query have in the place of field f
ValuesFor(f, keys) ==
    IF \A i \in 1..Len(keys) : keys[i].k # f THEN { <<"*">> }
    ELSE LET v == keys[CHOOSE i \in 1..Len(keys) : keys[i].k = f].v
         IN IF v.islist THEN Range(v.val) ELSE {v.val}

\* C18: a scalar of a query, a string of any length included, is one
\* candidate and is substituted whole; only the elements of a list are
\* candidates of their own
C18_ScalarIsOneCandidate ==
    Found =>
        /\ Len(ret.all_patterns) = ListProduct(call.keys, 1)
        /\ ListProduct(call.keys, 1) > 0 =>
             Range(ret.all_patterns) =
               {Fill(tokens(ThePattern, 1), values) :
                   values \in {vs \in [FieldNames(ThePattern) ->
                                         UNION {ValuesFor(f, call.keys) : f \in FieldNames(ThePattern)}] :
                                  \A f \in FieldNames(ThePattern) : vs[f] \in ValuesFor(f, call.keys)}}
        /\ (\A i \in 1..Len(call.keys) : ~call.keys[i].v.islist) =>
               Len(ret.all_patterns) = 1

C18_Witness ==
    /\ Found /\ Len(ret.all_patterns) = 3
    /\ \E i \in 1..Len(call.keys) :
           /\ ~call.keys[i].v.islist /\ Len(call.keys[i].v.val) = 2
           /\ call.keys[i].k \in FieldNames(ThePattern)
           /\ \A n \in 1..3 : \E j \in 1..Len(ret.all_patterns[n]) - 1 :
                  SubSeq(ret.all_patterns[n], j, j + 1) = call.keys[i].v.val

-----------------------------------------------------------------------------
(* Templates that cannot be built *)

\* the placeholders of a format string, as str.format and the parser read it
PlaceholderNames(pattern) ==
    {tokens(pattern, 1)[i].name :
        i \in {j \in 1..Len(tokens(pattern, 1)) : tokens(pattern, 1)[j].kind = "fld"}}

ReservedNames ==
    { <<"k", "e", "y", "s">>,
      <<"o", "n", "_", "p", "a", "r", "s", "e", "_", "e", "r", "r", "o", "r">>,
      <<"o", "n", "_", "e", "m", "p", "t", "y">>,
      <<"_", "a", "l", "l", "o", "w", "_", "e", "m", "p", "t", "y">> }

UsesReservedName(pattern) == PlaceholderNames(pattern) \cap ReservedNames # {}

HasAnonymousPlaceholder(pattern) == <<>> \in PlaceholderNames(pattern)

\* the path or the file pattern has a reserved name or an anonymous placeholder
InvalidTemplate ==
    \E pattern \in {path_pattern, file_pattern} :
        UsesReservedName(pattern) \/ HasAnonymousPlaceholder(pattern)

\* C19: the construction of a FileFinder from a path or file pattern with a
\* reserved name as placeholder or with an anonymous placeholder raises and
\* returns no finder, and nothing is found or created on such a template
C19_InvalidTemplatesFail ==
    /\ (call.op = "init" /\ InvalidTemplate) =>
           ~ret.ok /\ ret.v = <<>>
              /\ ret.err \in {"not a valid placeholder", "only named fields are allowed"}
    /\ call.op \in {"find", "create_name"} => ~InvalidTemplate

C19_Witness ==
    /\ call.op = "init" /\ ~ret.ok
    /\ UsesReservedName(path_pattern) /\ ~HasAnonymousPlaceholder(file_pattern)
    /\ ret.err = "not a valid placeholder"

-----------------------------------------------------------------------------
(* Format hints *)

\* the pattern of one of the three finders of the FileFinder
PatternOfFinder(which) ==
    IF which = "file" THEN file_pattern ELSE Finder(which).pattern

\* the format string of a sequence of text and fields, without hints
RECURSIVE WithoutHints(_)
WithoutHints(toks) ==
    IF toks = <<>> THEN <<>>
    ELSE (IF Head(toks).kind = "fld" THEN <<"{">> \o Head(toks).name \o <<"}">>
          ELSE IF Head(toks).name[1] \in {"{", "}"} THEN Head(toks).name \o Head(toks).name
          ELSE Head(toks).name)
         \o WithoutHints(Tail(toks))

Unhinted(pattern) == WithoutHints(tokens(pattern, 1))

\* C20: the construction form of a template is the template with {name} for
\* every {name:spec} and its text as it was, create_name puts each value as
\* it is in the place of its field, and the fields and their order are those
\* of the template without hints
C20_ConstructionFormIgnoresHints ==
    /\ Built =>
           \A which \in {"file", "path", "full"} :
               /\ ret.v[which].pattern_no_fmt_spec = Unhinted(ret.v[which].pattern)
               /\ ret.v[which].keys = find_keys(Unhinted(ret.v[which].pattern))
    /\ (call.op = "create_name"
            /\ FieldNames(PatternOfFinder(call.which)) \subseteq DOMAIN call.keys) =>
           ret = Ok(Fill(tokens(PatternOfFinder(call.which), 1), call.keys))

-----------------------------------------------------------------------------
(* priority_filter: its arguments *)

\* the group columns the call asks for
AskedGroupBy ==
    IF fcall.groupby.none
    THEN SelectSeq(table.columns, LAMBDA c : c \notin {fcall.column, "filename"})
    ELSE fcall.groupby.by

ColumnMissing == fcall.column \notin Range(table.columns)

ColumnGrouped == fcall.column \in Range(AskedGroupBy)

\* the call failed for its arguments, with nothing grouped, dropped or warned of
FailedAtOnce ==
    /\ ~fret.ok
    /\ fret.err \in {"unknown on_missing", "column must be available",
                     "groupby may not contain column"}
    /\ fret.df.rows = <<>>
    /\ \A i \in 1..Len(fret.warnings) : fret.warnings[i].category = "FutureWarning"

\* C21 as stated: priority_filter fails at once when the column is no column
\* of the table, when it is grouped by, or when on_missing is none of raise,
\* warn and ignore, also for a table without duplicate groups
C21_MisconfigurationFails ==
    (Filtered /\ (ColumnMissing \/ ColumnGrouped
                     \/ fcall.on_missing \notin {"raise", "warn", "ignore"})) =>
        FailedAtOnce

\* C21: priority_filter fails at once when the column is no column of the
\* table, when it is grouped by, or when on_missing is none of raise, warn,
\* ignore and error, also for a table without duplicate groups; error stands
\* for raise and is answered with a FutureWarning
C21_MisconfigurationFailsButError ==
    /\ (Filtered /\ (ColumnMissing \/ ColumnGrouped
                        \/ fcall.on_missing \notin {"raise", "warn", "ignore", "error"})) =>
           FailedAtOnce
    /\ (Filtered /\ fcall.on_missing = "error") =>
           LET same == priority_filter(table, fcall.column, fcall.order, "raise",
                                       fcall.groupby)
           IN /\ fret.ok = same.ok /\ fret.err = same.err /\ fret.df = same.df
              /\ fret.warnings # <<>> /\ fret.warnings[1].category = "FutureWarning"
              /\ Tail(fret.warnings) = same.warnings

C21_Witness ==
    /\ Filtered /\ ColumnGrouped /\ ~ColumnMissing
    /\ fcall.on_missing = "warn"
    /\ Len(table.rows) = 1
    /\ fret.err = "groupby may not contain column"

-----------------------------------------------------------------------------
(* Policies that do not exist *)

UnknownPolicy ==
    \/ call.on_parse_error \notin {"raise", "warn", "ignore"}
    \/ call.on_empty \notin {"raise", "warn", "allow"}

\* C22: a find with an on_parse_error or an on_empty that does not exist
\* raises, and at no time has a pattern been built or the path provider been
\* called, whatever the query and the paths
C22_UnknownPolicyRejected ==
    (Stepping /\ UnknownPolicy) =>
        /\ call.pc = "done" /\ ~ret.ok
        /\ ret.err \in {"unknown on_parse_error", "unknown on_empty"}
        /\ call.log = <<>>
        /\ ret.all_patterns = <<>> /\ ret.all_paths = <<>> /\ ret.warnings = <<>>
        /\ ret = find(TheFinder, test_paths, call.keys, call.on_parse_error, call.on_empty)

C22_Witness ==
    /\ Stepping /\ call.on_parse_error = "ignore" /\ call.on_empty = "foo"
    /\ Len(call.keys) = 2 /\ Len(test_paths) = 2
    /\ ret.err = "unknown on_empty"

-----------------------------------------------------------------------------
(* find_single *)

FoundSingle == call.op = "find_single"

\* C23: a find_single that returns has exactly one row; it raises when no
\* path was collected, when more than one row was found and when a collected
\* path does not match the template
C23_FindSingleOneRow ==
    FoundSingle =>
        /\ ret.ok => Len(ret.df.rows) = 1
        /\ ret.all_paths = <<>> => ~ret.ok
        /\ Len(ret.all_paths) > 1 => ~ret.ok
        /\ Unparsable # {} => ~ret.ok

-----------------------------------------------------------------------------
(* The paths of test_paths and those of a file system *)

\* C24: for every pattern of a find_paths, the provider of test_paths gives
\* what glob gives on a file system that holds the test paths as files: the
\* directories that match, each of them once
C24_TestPathsAsFileSystem ==
    (Found /\ call.which = "path") =>
        \A n \in 1..Len(ret.all_patterns) :
            LET found == glob(test_paths, ret.all_patterns[n])
            IN /\ Range(found) = glob_glob(test_paths, ret.all_patterns[n])
               /\ Len(found) = Cardinality(glob_glob(test_paths, ret.all_patterns[n]))

-----------------------------------------------------------------------------
(* Derived tables *)

Derived == fcall.op = "derive"

\* C25: search, a slice and priority_filter return a new table and leave the
\* table they were applied to as it was, and a change of the rows of the
\* returned table leaves it as it was
C25_DerivedTablesDoNotAlias ==
    Derived => /\ table = fcall.parent
               /\ fret.ok => fcall.shares = <<>>

-----------------------------------------------------------------------------
(* priority_filter: a table without duplicate groups *)

\* C26: a table in which no two rows agree on all group columns comes back
\* from priority_filter as it is, rows and order, without error and without
\* warning, whatever the order and on_missing
C26_NoDuplicatesUnchanged ==
    (Filtered /\ ~HasSeveral) =>
        /\ fret.ok
        /\ fret.df = table
        /\ fret.warnings = <<>>

C26_Witness ==
    /\ Filtered /\ ~HasSeveral /\ fcall.on_missing = "raise"
    /\ Len(table.rows) = 2
    /\ \A i \in 1..2 : table.rows[i].named.res \notin Range(fcall.order)
    /\ fret.ok /\ fret.df = table

-----------------------------------------------------------------------------
(* on_empty and paths that do not parse *)

NoEmptyResultReport ==
    /\ ret.err # "found no files"
    /\ \A i \in 1..Len(ret.warnings) : ret.warnings[i].category # "found no files"

\* C27: on_empty is decided by the number of collected paths: when a path
\* was collected there is no empty-result error or warning, and when none of
\* the collected paths matches the template, on_parse_error "warn" and
\* "ignore" return the empty table with the columns of the template, also
\* under on_empty "raise"
C27_OnEmptyCountsCollectedPaths ==
    (Found /\ ret.all_paths # <<>>) =>
        /\ NoEmptyResultReport
        /\ (Unparsable = 1..Len(ret.all_paths)
                /\ call.on_parse_error \in {"warn", "ignore"}) =>
               ret.ok /\ ret.df = EmptyTable

-----------------------------------------------------------------------------
(* priority_filter: every partition dropped *)

\* C28: when some partition has several rows and no partition has a value of
\* the order, on_missing "warn" and "ignore" return the table without rows,
\* with the columns of the input
C28_AllDroppedIsEmptyTable ==
    (/\ Filtered /\ HasSeveral
     /\ \A pkey \in PartitionKeys(table.rows) : ~HasBest(pkey)
     /\ fcall.on_missing \in {"warn", "ignore"}) =>
        /\ fret.ok
        /\ fret.df.rows = <<>>
        /\ fret.df.columns = table.columns

-----------------------------------------------------------------------------
(* A path collected more than once *)

\* a path that can be parsed was collected for two patterns of the call
CollectedTwice ==
    \E i, j \in 1..Len(ret.all_paths) :
        /\ i # j /\ ret.all_paths[i] = ret.all_paths[j]
        /\ parse(ThePattern, ret.all_paths[i]).ok

\* C29: a find that collected the same path more than once fails with the
\* non-unique-metadata error, and no table that find returns holds the same
\* path twice
C29_PathCollectedTwiceFails ==
    /\ (Assembled /\ CollectedTwice) => (~ret.ok /\ ret.err = "non-unique metadata")
    /\ (Found /\ ret.ok) =>
           \A i, j \in 1..Len(ret.df.rows) : i # j => ret.df.rows[i].path # ret.df.rows[j].path

-----------------------------------------------------------------------------
(* Several calls on one FileFinder *)

\* the number of calls a caller makes on one FileFinder
MaxCalls == 2

\* update_dict_with_kwargs(keys, **keys_kwargs) on a query:
\* (dictionary or {}) | kwargs, a new dict in which the keyword arguments take
\* precedence and new keys come last
merge_kwargs(keys, keys_kwargs) ==
    [i \in 1..Len(keys) |->
        IF \E j \in 1..Len(keys_kwargs) : keys_kwargs[j].k = keys[i].k
        THEN keys_kwargs[CHOOSE j \in 1..Len(keys_kwargs) : keys_kwargs[j].k = keys[i].k]
        ELSE keys[i]]
    \o SelectSeq(keys_kwargs, LAMBDA e : \A i \in 1..Len(keys) : keys[i].k # e.k)

\* the caller's dictionary had find worked on it and not on a copy: the
\* keyword arguments override it and its scalars are wrapped in lists
keys_updated_in_place(keys, keys_kwargs) ==
    LET merged == merge_kwargs(keys, keys_kwargs)
    IN [i \in 1..Len(merged) |->
           [k |-> merged[i].k, v |-> List(wrap_scalar(merged[i].v))]]

\* the caller's keys dictionary after find(keys, **keys_kwargs): find rebinds
\* its local name keys to the dict update_dict_with_kwargs returns and wraps
\* the scalars of that dict
keys_after_find(keys, keys_kwargs) == keys

\* the calls made so far
Calls == IF call.op = "none" THEN 0 ELSE call.n

\* the dictionaries a caller passes, some with scalar values, and the one the
\* caller passed to the last find
CallerKeys ==
    { <<>>,
      <<Entry("a", Scalar(<<"a">>))>>,
      <<Entry("k", Scalar(<<"a">>)), Entry("a", List(<< <<"a">>, <<"*">> >>))>> }
    \cup (IF call.op = "find" THEN {call.dictionary} ELSE {})

\* the keyword arguments of the calls
CallerKwargs ==
    { <<>>, <<Entry("a", List(<< <<"a">>, <<"b">> >>))>> }

\* on_parse_error and on_empty of the calls
CallerPolicies == { <<"raise", "raise">>, <<"warn", "allow">> }

\* find_paths(keys, **keys_kwargs) and find_files(keys, **keys_kwargs) on a
\* FileFinder that has been called before; dictionary is the caller's dict
\* after the call
FindAgain(which, keys, keys_kwargs, on_parse_error, on_empty) ==
    /\ Calls < MaxCalls
    /\ call' = [op |-> "find", n |-> Calls + 1, which |-> which,
                keys |-> merge_kwargs(keys, keys_kwargs),
                given |-> keys, keys_kwargs |-> keys_kwargs,
                dictionary |-> keys_after_find(keys, keys_kwargs),
                on_parse_error |-> on_parse_error, on_empty |-> on_empty]
    /\ ret' = find(Finder(which), test_paths, merge_kwargs(keys, keys_kwargs),
                   on_parse_error, on_empty)
    /\ UNCHANGED <<path_pattern, file_pattern, test_paths, filterVars>>

\* create_path_name and create_full_name on a FileFinder that has been
\* called before
CreateNameAgain(which, keys) ==
    /\ Calls < MaxCalls
    /\ call' = [op |-> "create_name", n |-> Calls + 1, which |-> which, keys |-> keys]
    /\ ret' = create_name(Finder(which).pattern, keys, <<>>)
    /\ UNCHANGED <<path_pattern, file_pattern, test_paths, filterVars>>

InitCalls ==
    /\ InitFinder(FileFinders)
    /\ test_paths \in {<<>>, << <<"a", "/", "a">> >>, << <<"a", "_", "b">> >>,
                       << <<"a", "/", "a">>, <<"a", "_", "b">> >>}
    /\ IdleFilter

NextCalls ==
    \/ \E which \in {"path", "full"}, keys \in CallerKeys, keys_kwargs \in CallerKwargs,
          policy \in CallerPolicies :
           FindAgain(which, keys, keys_kwargs, policy[1], policy[2])
    \/ \E which \in {"path", "full"} :
          \E keys \in UNION {[K -> {<<"a">>}] :
                                K \in SUBSET Range(find_keys(Finder(which).pattern))} :
              CreateNameAgain(which, keys)

SpecCalls == InitCalls /\ [][NextCalls]_vars

\* the finder find_paths ("path") or find_files ("full") would work on if the
\* FileFinder had just been built from its two patterns
Fresh(which) ==
    LET built == FileFinder_init(path_pattern, file_pattern).v[which]
    IN [pattern |-> built.pattern, suffix |-> built.suffix]

=============================================================================
